---- MODULE Spec2Model ----
(***************************************************************************)
(* A model of the zkcash shielded pool (anchor/programs/zkcash): the       *)
(* incremental Merkle accumulator with its root ring buffer, the amount    *)
(* check, and the transact instruction with the accounts it creates and    *)
(* the token transfers it makes.                                           *)
(*                                                                         *)
(* Scaling.  Machine words and the field are scaled down so that every     *)
(* case is enumerable, keeping the order relations of the program:         *)
(*   i64::MAX < u64::MAX < p < 2^256 - 1   and   |i64| + u64 < p.          *)
(* A 32-byte big-endian value is a number in 0..BYTES32_MAX.  Hash         *)
(* outputs (Poseidon nodes) are symbolic: the hash of two nodes is the     *)
(* concatenation of the two, so hashes collide only when their inputs      *)
(* are equal, and a node of level i is a sequence of 2^i leaves.           *)
(*                                                                         *)
(* Specifications.                                                         *)
(*   SpecTree    the accumulator called directly: append, is_known_root,   *)
(*               from a new tree and from one near the end of its counter  *)
(*   SpecAmount  the amount check on every triple of arguments             *)
(*   Spec        transact on one pool of an SPL mint, one instruction at   *)
(*               a time, from a new pool and from an aged one              *)
(*   SpecRace    two transactions naming a common nullifier, either order  *)
(* utils::check_public_amount and the Groth16 verifier are called by the   *)
(* program but their code is not part of the sources; they follow the      *)
(* design document.                                                        *)
(***************************************************************************)
EXTENDS Integers, Sequences, FiniteSets, TLC

VARIABLES
    tree_account,         \* MerkleTreeAccount: subtrees, root, root_history, root_index, next_index
    account_keys,         \* addresses of the nullifier / commitment accounts that exist
    commitment_accounts,  \* data of the CommitmentAccount records written
    balances,             \* token ledger: amount held by each token account
    spent,                \* history: how many committed input slots named each nullifier
    phase,                \* "idle", or "done" right after a call (its outcome is in result)
    call,                 \* the arguments of the last call
    result,               \* the outcome of the last call
    log,                  \* the steps of the last transact that completed, in order
    failed,               \* the step of the last transact that failed, or "none"
    pre,                  \* the persisted state when the last call began
    ncalls                \* number of direct accumulator calls made (SpecTree)

vars == <<tree_account, account_keys, commitment_accounts, balances, spent,
          phase, call, result, log, failed, pre, ncalls>>

---------------------------------------------------------------------------
(* Words and sizes (scaled).                                               *)

I64_MAX == 7
I64_MIN == -I64_MAX - 1
U64_MAX == 2 * I64_MAX + 1
FIELD_SIZE == 101
BYTES32_MAX == 255
ROOT_HISTORY_SIZE == 3
DEFAULT_HEIGHT == 2

(* Bounds of the exploration. *)
MaxCalls == 5
NumLeaves == 2

---------------------------------------------------------------------------
(* light_hasher: Poseidon as a symbolic two-input hash and its table of    *)
(* empty-subtree constants.                                                *)

Zero == <<0>>

Leaf(k) == <<k>>

Hash(left, right) == left \o right

RECURSIVE ZeroBytes(_)
ZeroBytes(i) == IF i = 0 THEN Zero ELSE Hash(ZeroBytes(i - 1), ZeroBytes(i - 1))

---------------------------------------------------------------------------
(* merkle_tree.rs                                                          *)

\* The account as zeroed by its creation, with the two counters set by
\* initialize_tree, before MerkleTree::initialize.
ZeroedTree ==
    [ subtrees     |-> [i \in 0..(DEFAULT_HEIGHT - 1) |-> Zero],
      root         |-> Zero,
      root_history |-> [i \in 0..(ROOT_HISTORY_SIZE - 1) |-> Zero],
      root_index   |-> 0,
      next_index   |-> 0 ]

\* An initialize that does not seed the root history.
Initialize_NoHistory(t) ==
    [ t EXCEPT !.subtrees = [i \in 0..(DEFAULT_HEIGHT - 1) |-> ZeroBytes(i)],
               !.root = ZeroBytes(DEFAULT_HEIGHT) ]

Initialize(t) ==
    [ t EXCEPT !.subtrees = [i \in 0..(DEFAULT_HEIGHT - 1) |-> ZeroBytes(i)],
               !.root = ZeroBytes(DEFAULT_HEIGHT),
               !.root_history[0] = ZeroBytes(DEFAULT_HEIGHT) ]

\* The loop without the store of the left node in subtrees.
RECURSIVE AppendLoop_NoCache(_, _)
AppendLoop_NoCache(i, s) ==
    IF i = DEFAULT_HEIGHT THEN s
    ELSE
        LET even  == s.current_index % 2 = 0
            left  == IF even THEN s.current_level_hash ELSE s.subtrees[i]
            right == IF even THEN ZeroBytes(i) ELSE s.current_level_hash
        IN  AppendLoop_NoCache(i + 1,
              [ current_index      |-> s.current_index \div 2,
                current_level_hash |-> Hash(left, right),
                subtrees |-> s.subtrees,
                proof    |-> [s.proof EXCEPT ![i] = IF even THEN right ELSE left] ])

\* The loop that returns the node on the path where the sibling belongs.
RECURSIVE AppendLoop_PathNodes(_, _)
AppendLoop_PathNodes(i, s) ==
    IF i = DEFAULT_HEIGHT THEN s
    ELSE
        LET even  == s.current_index % 2 = 0
            left  == IF even THEN s.current_level_hash ELSE s.subtrees[i]
            right == IF even THEN ZeroBytes(i) ELSE s.current_level_hash
        IN  AppendLoop_PathNodes(i + 1,
              [ current_index      |-> s.current_index \div 2,
                current_level_hash |-> Hash(left, right),
                subtrees |-> IF even THEN [s.subtrees EXCEPT ![i] = s.current_level_hash]
                                     ELSE s.subtrees,
                proof    |-> [s.proof EXCEPT ![i] = IF even THEN left ELSE right] ])

\* The loop of append over the levels i = 0 .. DEFAULT_HEIGHT-1.  s carries
\* current_index, current_level_hash, subtrees and proof.
RECURSIVE AppendLoop(_, _)
AppendLoop(i, s) ==
    IF i = DEFAULT_HEIGHT THEN s
    ELSE
        LET even  == s.current_index % 2 = 0
            left  == IF even THEN s.current_level_hash ELSE s.subtrees[i]
            right == IF even THEN ZeroBytes(i) ELSE s.current_level_hash
        IN  AppendLoop(i + 1,
              [ current_index      |-> s.current_index \div 2,
                current_level_hash |-> Hash(left, right),
                subtrees |-> IF even THEN [s.subtrees EXCEPT ![i] = s.current_level_hash]
                                     ELSE s.subtrees,
                proof    |-> [s.proof EXCEPT ![i] = IF even THEN right ELSE left] ])

\* An append that computes the new counter and does not store it.
MerkleAppend_NoCount(leaf, t) ==
    LET s == AppendLoop(0,
               [ current_index      |-> t.next_index,
                 current_level_hash |-> leaf,
                 subtrees           |-> t.subtrees,
                 proof              |-> [i \in 0..(DEFAULT_HEIGHT - 1) |-> Zero] ])
        new_root_index == (t.root_index + 1) % ROOT_HISTORY_SIZE
    IN  [ err   |-> "Ok",
          tree  |-> [t EXCEPT !.subtrees = s.subtrees, !.root = s.current_level_hash,
                              !.root_index = new_root_index,
                              !.root_history[new_root_index] = s.current_level_hash],
          proof |-> s.proof ]

\* append with the slot of the new root and the new counter given.
AppendAt(leaf, t, new_root_index, new_next_index) ==
    LET s == AppendLoop(0,
               [ current_index      |-> t.next_index,
                 current_level_hash |-> leaf,
                 subtrees           |-> t.subtrees,
                 proof              |-> [i \in 0..(DEFAULT_HEIGHT - 1) |-> Zero] ])
    IN  [ err   |-> "Ok",
          tree  |-> [t EXCEPT !.subtrees = s.subtrees, !.root = s.current_level_hash,
                              !.next_index = new_next_index,
                              !.root_index = new_root_index,
                              !.root_history[new_root_index] = s.current_level_hash],
          proof |-> s.proof ]

\* An append that writes the new root over the current slot.
MerkleAppend_SameSlot(leaf, t) == AppendAt(leaf, t, t.root_index, t.next_index + 1)

\* An append whose slot index stops at the last slot instead of wrapping.
MerkleAppend_NoWrap(leaf, t) ==
    AppendAt(leaf, t,
             IF t.root_index + 1 >= ROOT_HISTORY_SIZE THEN ROOT_HISTORY_SIZE - 1
             ELSE t.root_index + 1,
             t.next_index + 1)

\* An append whose slot index is not reduced modulo the size of the history.
MerkleAppend_NoModulo(leaf, t) == AppendAt(leaf, t, t.root_index + 1, t.next_index + 1)

\* An append whose counter wraps (wrapping_add instead of checked_add).
MerkleAppend_Wrapping(leaf, t) ==
    AppendAt(leaf, t, (t.root_index + 1) % ROOT_HISTORY_SIZE,
             (t.next_index + 1) % (U64_MAX + 1))

\* An append that mixes the pool's authority into the leaf.
MerkleAppend_Salted(leaf, t) ==
    AppendAt(IF "authority" \in DOMAIN t /\ t.authority # "authority"
             THEN <<leaf[1] + 50>> ELSE leaf,
             t, (t.root_index + 1) % ROOT_HISTORY_SIZE, t.next_index + 1)

\* MerkleTree::append.  The returned tree is the account as the call leaves
\* it: on ArithmeticOverflow subtrees and root are already written.
MerkleAppend(leaf, t) ==
    LET s == AppendLoop(0,
               [ current_index      |-> t.next_index,
                 current_level_hash |-> leaf,
                 subtrees           |-> t.subtrees,
                 proof              |-> [i \in 0..(DEFAULT_HEIGHT - 1) |-> Zero] ])
        t1 == [t EXCEPT !.subtrees = s.subtrees, !.root = s.current_level_hash]
        new_root_index == (t.root_index + 1) % ROOT_HISTORY_SIZE
    IN  IF t.next_index + 1 > U64_MAX
        THEN [ err |-> "ArithmeticOverflow", tree |-> t1, proof |-> s.proof ]
        ELSE [ err   |-> "Ok",
               tree  |-> [t1 EXCEPT !.next_index = t.next_index + 1,
                                    !.root_index = new_root_index,
                                    !.root_history[new_root_index] = s.current_level_hash],
               proof |-> s.proof ]

\* The loop of is_known_root: compare at i, step backward with wrap-around,
\* stop when back at the start.
RECURSIVE KnownRootLoop(_, _, _)
KnownRootLoop(t, root, i) ==
    IF root = t.root_history[i] THEN TRUE
    ELSE LET j == IF i = 0 THEN ROOT_HISTORY_SIZE - 1 ELSE i - 1
         IN  IF j = t.root_index THEN FALSE ELSE KnownRootLoop(t, root, j)

\* is_known_root without its first test (lines 68-70).
IsKnownRoot_NoZeroTest(t, root) == KnownRootLoop(t, root, t.root_index)

\* is_known_root that looks at the newest entry of the history only.
IsKnownRoot_NewestOnly(t, root) ==
    IF root = Zero THEN FALSE ELSE root = t.root_history[t.root_index]

IsKnownRoot(t, root) ==
    IF root = Zero THEN FALSE ELSE KnownRootLoop(t, root, t.root_index)

---------------------------------------------------------------------------
(* The accumulator used directly, as the unit tests do: initialize, then   *)
(* any sequence of append and is_known_root calls.                         *)

RECURSIVE AppendAll(_, _)
AppendAll(leaves, t) ==
    IF leaves = <<>> THEN t ELSE AppendAll(Tail(leaves), MerkleAppend(Head(leaves), t).tree)

InitializedTree == Initialize(ZeroedTree)

\* The accumulator after U64_MAX - 2 appends: three appends from overflow.
AgedLeaf(i) == Leaf(100 + i)
AgedTree == AppendAll([i \in 1..(U64_MAX - 2) |-> AgedLeaf(i)], InitializedTree)

Leaves == {Zero} \cup {Leaf(k) : k \in 1..NumLeaves}

BogusRoot == [i \in 1..(2 ^ DEFAULT_HEIGHT) |-> 99]

CandidateRoots(t) ==
    {Zero, BogusRoot, ZeroBytes(1), ZeroBytes(DEFAULT_HEIGHT), t.root}
        \cup {t.root_history[i] : i \in 0..(ROOT_HISTORY_SIZE - 1)}

NoCall == [op |-> "none"]

InitTree ==
    /\ tree_account \in {InitializedTree, AgedTree}
    /\ account_keys = {}
    /\ commitment_accounts = {}
    /\ balances = <<>>
    /\ spent = <<>>
    /\ phase = "idle"
    /\ call = NoCall
    /\ result = NoCall
    /\ log = <<>>
    /\ failed = "none"
    /\ pre = tree_account
    /\ ncalls = 0

AppendCall(leaf) ==
    /\ ncalls < MaxCalls
    /\ LET r == MerkleAppend(leaf, tree_account)
       IN  /\ tree_account' = r.tree
           /\ result' = [op |-> "append", err |-> r.err, proof |-> r.proof]
    /\ call' = [op |-> "append", leaf |-> leaf]
    /\ pre' = tree_account
    /\ ncalls' = ncalls + 1
    /\ UNCHANGED <<account_keys, commitment_accounts, balances, spent, phase, log, failed>>

IsKnownRootCall(root) ==
    /\ ncalls < MaxCalls
    /\ result' = [op |-> "is_known_root", known |-> IsKnownRoot(tree_account, root)]
    /\ call' = [op |-> "is_known_root", root |-> root]
    /\ pre' = tree_account
    /\ ncalls' = ncalls + 1
    /\ UNCHANGED <<tree_account, account_keys, commitment_accounts, balances, spent,
                   phase, log, failed>>

NextTree ==
    \/ \E leaf \in Leaves : AppendCall(leaf)
    \/ \E root \in CandidateRoots(tree_account) : IsKnownRootCall(root)

SpecTree == InitTree /\ [][NextTree]_vars

---------------------------------------------------------------------------
(* Two accumulators of different pools, initialized independently and fed  *)
(* the same leaves in the same order, with the roots produced so far.      *)

\* The MerkleTreeAccount after initialize_tree of the pool of (authority, token_mint).
InitializeTree(authority, token_mint) ==
    Initialize([ authority    |-> authority,
                 token_mint   |-> token_mint,
                 next_index   |-> 0,
                 subtrees     |-> ZeroedTree.subtrees,
                 root         |-> ZeroedTree.root,
                 root_history |-> ZeroedTree.root_history,
                 root_index   |-> 0 ])

\* Appends fed: one more than the history holds, all within the tree's capacity.
FeedLen == ROOT_HISTORY_SIZE + 1

InitFeed ==
    /\ tree_account = InitializeTree("authority", "mint")
    /\ \E a \in {"mallory", "carol"} :
          result = [op |-> "feed", twin |-> InitializeTree(a, "mint")]
    /\ account_keys = {}
    /\ commitment_accounts = {}
    /\ balances = <<>>
    /\ spent = <<>>
    /\ phase = "idle"
    /\ call = NoCall
    /\ log = <<tree_account.root>>
    /\ failed = "none"
    /\ pre = tree_account
    /\ ncalls = 0

\* The same leaf is appended to both accumulators; log takes the new root,
\* and the leaf is noted with its position, as transact records it.
FeedAppend(leaf) ==
    /\ ncalls < FeedLen
    /\ tree_account' = MerkleAppend(leaf, tree_account).tree
    /\ commitment_accounts' =
          commitment_accounts \cup {[commitment |-> leaf, index |-> tree_account.next_index]}
    /\ result' = [op |-> "feed", twin |-> MerkleAppend(leaf, result.twin).tree]
    /\ log' = Append(log, tree_account'.root)
    /\ call' = [op |-> "append", leaf |-> leaf]
    /\ pre' = tree_account
    /\ ncalls' = ncalls + 1
    /\ UNCHANGED <<account_keys, balances, spent, phase, failed>>

NextFeed == \E leaf \in Leaves : FeedAppend(leaf)

SpecFeed == InitFeed /\ [][NextFeed]_vars

---------------------------------------------------------------------------
(* program/src/lib/sparse_merkle_tree.rs: SparseMerkleTreeWithHistory of   *)
(* height DEFAULT_HEIGHT, fed the same leaves as the MerkleTree of the     *)
(* pool's account.                                                         *)

\* SparseMerkleTreeWithHistory::new_empty
SparseNewEmpty ==
    [ subtrees             |-> [i \in 0..(DEFAULT_HEIGHT - 1) |-> ZeroBytes(i)],
      next_index_to_insert |-> 0,
      root                 |-> ZeroBytes(DEFAULT_HEIGHT),
      root_history         |-> [i \in 0..(ROOT_HISTORY_SIZE - 1) |->
                                   IF i = 0 THEN ZeroBytes(DEFAULT_HEIGHT) ELSE Zero],
      current_root_index   |-> 0 ]

\* The loop of SparseMerkleTreeWithHistory::append over the levels.
RECURSIVE SparseAppendLoop(_, _)
SparseAppendLoop(i, s) ==
    IF i = DEFAULT_HEIGHT THEN s
    ELSE IF s.current_index % 2 = 0
    THEN SparseAppendLoop(i + 1,
           [ current_index      |-> s.current_index \div 2,
             current_level_hash |-> Hash(s.current_level_hash, ZeroBytes(i)),
             subtrees           |-> [s.subtrees EXCEPT ![i] = s.current_level_hash],
             proof              |-> [s.proof EXCEPT ![i] = ZeroBytes(i)] ])
    ELSE SparseAppendLoop(i + 1,
           [ current_index      |-> s.current_index \div 2,
             current_level_hash |-> Hash(s.subtrees[i], s.current_level_hash),
             subtrees           |-> s.subtrees,
             proof              |-> [s.proof EXCEPT ![i] = s.subtrees[i]] ])

\* An append that leaves the root history as it is.
SparseAppend_NoHistory(leaf, t) ==
    LET s == SparseAppendLoop(0,
               [ current_index      |-> t.next_index_to_insert,
                 current_level_hash |-> leaf,
                 subtrees           |-> t.subtrees,
                 proof              |-> [i \in 0..(DEFAULT_HEIGHT - 1) |-> Zero] ])
    IN  [ tree  |-> [t EXCEPT !.subtrees = s.subtrees, !.root = s.current_level_hash,
                              !.next_index_to_insert = t.next_index_to_insert + 1,
                              !.current_root_index =
                                  (t.current_root_index + 1) % ROOT_HISTORY_SIZE],
          proof |-> s.proof ]

\* SparseMerkleTreeWithHistory::append: the tree after the call and the
\* path returned.  The counter is a usize incremented with +=; the feed
\* below stays far from its end.
SparseAppend(leaf, t) ==
    LET s == SparseAppendLoop(0,
               [ current_index      |-> t.next_index_to_insert,
                 current_level_hash |-> leaf,
                 subtrees           |-> t.subtrees,
                 proof              |-> [i \in 0..(DEFAULT_HEIGHT - 1) |-> Zero] ])
        new_root_index == (t.current_root_index + 1) % ROOT_HISTORY_SIZE
    IN  [ tree  |-> [t EXCEPT !.subtrees = s.subtrees, !.root = s.current_level_hash,
                              !.next_index_to_insert = t.next_index_to_insert + 1,
                              !.current_root_index = new_root_index,
                              !.root_history[new_root_index] = s.current_level_hash],
          proof |-> s.proof ]

InitPair ==
    /\ tree_account = InitializedTree
    /\ result = [ op |-> "pair", sparse |-> SparseNewEmpty,
                  proof |-> <<>>, sparse_proof |-> <<>> ]
    /\ account_keys = {}
    /\ commitment_accounts = {}
    /\ balances = <<>>
    /\ spent = <<>>
    /\ phase = "idle"
    /\ call = NoCall
    /\ log = <<>>
    /\ failed = "none"
    /\ pre = tree_account
    /\ ncalls = 0

\* The same leaf is appended to the account's tree and to the sparse tree.
PairAppend(leaf) ==
    /\ ncalls < MaxCalls
    /\ LET r == MerkleAppend(leaf, tree_account)
           q == SparseAppend(leaf, result.sparse)
       IN  /\ tree_account' = r.tree
           /\ result' = [ op |-> "pair", sparse |-> q.tree,
                          proof |-> r.proof, sparse_proof |-> q.proof ]
    /\ call' = [op |-> "append", leaf |-> leaf]
    /\ pre' = tree_account
    /\ ncalls' = ncalls + 1
    /\ UNCHANGED <<account_keys, commitment_accounts, balances, spent, phase, log, failed>>

NextPair == \E leaf \in Leaves : PairAppend(leaf)

SpecPair == InitPair /\ [][NextPair]_vars

\* C36: the two accumulator implementations agree.  Fed the same leaf
\* sequence, SparseMerkleTreeWithHistory and MerkleTree have equal root,
\* subtrees, root history, root index and leaf counter after every append,
\* and every append returns the same path from both.
C36_ImplementationsAgree ==
    result.op = "pair" =>
        /\ result.sparse.root = tree_account.root
        /\ result.sparse.subtrees = tree_account.subtrees
        /\ result.sparse.root_history = tree_account.root_history
        /\ result.sparse.current_root_index = tree_account.root_index
        /\ result.sparse.next_index_to_insert = tree_account.next_index
        /\ result.sparse_proof = result.proof

\* Both trees have taken a right leaf over a left one that is not empty
\* and the cursor of the history has wrapped.
C36_Witness ==
    /\ result.op = "pair"
    /\ ncalls = ROOT_HISTORY_SIZE + 1
    /\ tree_account.next_index = ncalls
    /\ result.sparse.next_index_to_insert = ncalls
    /\ result.sparse.current_root_index = 1
    /\ result.sparse_proof[0] # Zero
    /\ result.sparse.root = tree_account.root
    /\ tree_account.root # ZeroBytes(DEFAULT_HEIGHT)

---------------------------------------------------------------------------
(* Claims on the accumulator (SpecTree).                                   *)

StoredRoots(t) == {t.root_history[i] : i \in 0..(ROOT_HISTORY_SIZE - 1)}

\* C6: is_known_root(candidate) returns true if and only if candidate is
\* not the all-zero value and equals some entry of root_history.  This is
\* stated for every candidate in every reachable state (so the all-zero
\* value is rejected also while unwritten slots still hold zero, and a
\* value that differs from every stored root is rejected), and for the
\* value each call actually returned.
C6_KnownRootIffStored ==
    /\ \A c \in CandidateRoots(tree_account) \cup {Leaf(1) \o Leaf(1) \o Zero \o Zero} :
          IsKnownRoot(tree_account, c) = (c # Zero /\ c \in StoredRoots(tree_account))
    /\ result.op = "is_known_root" =>
          result.known = (call.root # Zero /\ call.root \in StoredRoots(tree_account))

\* The all-zero value is asked for while an unwritten slot holds zero, and
\* is refused; an older root, no longer the current one, is still accepted.
C6_Witness ==
    /\ result.op = "is_known_root"
    /\ call.root = Zero
    /\ Zero \in StoredRoots(tree_account)
    /\ ~result.known
    /\ \E r \in StoredRoots(tree_account) :
          r # tree_account.root /\ r # Zero /\ IsKnownRoot(tree_account, r)

\* C7: in every state reachable by initialize followed by any sequence of
\* append calls, root_history[root_index] = root.
C7_HistoryHoldsRoot ==
    tree_account.root_history[tree_account.root_index] = tree_account.root

\* C16: an append on next_index at its maximum fails with ArithmeticOverflow
\* and leaves next_index unchanged; an append on next_index one below the
\* maximum succeeds and brings it to the maximum; next_index never decreases
\* (it never wraps to 0).
C16_OverflowSafety ==
    result.op = "append" =>
        /\ pre.next_index = U64_MAX =>
              /\ result.err = "ArithmeticOverflow"
              /\ tree_account.next_index = U64_MAX
        /\ pre.next_index = U64_MAX - 1 =>
              /\ result.err = "Ok"
              /\ tree_account.next_index = U64_MAX
        /\ tree_account.next_index >= pre.next_index
        /\ tree_account.next_index <= U64_MAX

\* The append on a tree one below the maximum has succeeded and the next
\* one has just failed.
C16_Witness ==
    /\ result.op = "append"
    /\ result.err = "ArithmeticOverflow"
    /\ pre.next_index = U64_MAX
    /\ tree_account.next_index = U64_MAX
    /\ ncalls >= 2

\* The number of leaves a tree of DEFAULT_HEIGHT levels has.
Capacity == 2 ^ DEFAULT_HEIGHT

\* C22: append never accepts a leaf once next_index has reached
\* 2^DEFAULT_HEIGHT, and no append brings next_index above 2^DEFAULT_HEIGHT.
C22_TreeCapacity ==
    result.op = "append" =>
        /\ pre.next_index >= Capacity => result.err # "Ok"
        /\ tree_account.next_index <= Capacity

\* C23: whenever append returns an error, every field of the account
\* (subtrees, root, root_history, root_index, next_index) has its value of
\* before the call.
C23_FailedAppendNoOp ==
    (result.op = "append" /\ result.err # "Ok") => tree_account = pre

\* The fold of a node at level i with the siblings proof[i..], the sibling
\* on the right where bit i of the leaf's index k is 0, on the left where
\* it is 1.
RECURSIVE FoldPath(_, _, _, _)
FoldPath(node, proof, k, i) ==
    IF i = DEFAULT_HEIGHT THEN node
    ELSE FoldPath(IF (k \div (2 ^ i)) % 2 = 0 THEN Hash(node, proof[i])
                  ELSE Hash(proof[i], node),
                  proof, k, i + 1)

\* C25: for every successful append of a leaf at index k, the value of
\* next_index before the call, folding the leaf with the returned siblings
\* yields the root stored by that append; for the first leaf of an empty
\* tree the path is the list of the empty-subtree constants.
C25_InclusionProof ==
    (result.op = "append" /\ result.err = "Ok") =>
        /\ FoldPath(call.leaf, result.proof, pre.next_index, 0) = tree_account.root
        /\ pre = InitializedTree =>
              result.proof = [i \in 0..(DEFAULT_HEIGHT - 1) |-> ZeroBytes(i)]

\* A nonzero leaf appended at index 3, with earlier nonzero leaves as its
\* siblings at both levels.
C25_Witness ==
    /\ result.op = "append"
    /\ result.err = "Ok"
    /\ pre.next_index = 3
    /\ call.leaf # Zero
    /\ result.proof[0] \notin {Zero, call.leaf}
    /\ result.proof[1] # ZeroBytes(1)
    /\ FoldPath(call.leaf, result.proof, 3, 0) = tree_account.root


\* The indices of root_history.
HistorySlots == 0..(ROOT_HISTORY_SIZE - 1)

\* C35: cursor bound.  In every state reached from an initialized tree by
\* appends, root_index < ROOT_HISTORY_SIZE and root_history keeps its
\* ROOT_HISTORY_SIZE slots, so the slot append writes and the slots
\* is_known_root reads are slots of the history.
C35_CursorBound ==
    /\ tree_account.root_index \in HistorySlots
    /\ DOMAIN tree_account.root_history = HistorySlots
    /\ result.op = "append" =>
          /\ pre.root_index \in HistorySlots
          /\ result.err = "Ok" =>
                /\ tree_account.root_index = (pre.root_index + 1) % ROOT_HISTORY_SIZE
                /\ tree_account.root_history[tree_account.root_index] = tree_account.root
    /\ result.op = "is_known_root" => result.known \in BOOLEAN

\* An append has moved the cursor from the last slot back to slot 0.
C35_Witness ==
    /\ result.op = "append"
    /\ result.err = "Ok"
    /\ pre.root_index = ROOT_HISTORY_SIZE - 1
    /\ tree_account.root_index = 0
    /\ tree_account.root_history[0] = tree_account.root
---------------------------------------------------------------------------
(* Claims on the fed accumulators (SpecFeed).  log[m + 1] is the root      *)
(* produced by append number m, append 0 being the initialization.         *)

\* The root produced by append number m.
RootOf(m) == log[m + 1]

\* C14 as stated: after k <= ROOT_HISTORY_SIZE appends, all k + 1 roots
\* produced so far, the empty root included, are known.
C14_AllRootsKnown ==
    ncalls <= ROOT_HISTORY_SIZE =>
        \A m \in 0..ncalls : IsKnownRoot(tree_account, RootOf(m))

\* C14, amended: after k <= ROOT_HISTORY_SIZE - 1 appends, all k + 1 roots
\* produced so far, the empty root included, are known; after exactly
\* ROOT_HISTORY_SIZE appends the roots of the appends 1..ROOT_HISTORY_SIZE
\* are known (the slot of the empty root has been overwritten).
C14_RootsKnownInWindow ==
    /\ ncalls <= ROOT_HISTORY_SIZE - 1 =>
          \A m \in 0..ncalls : IsKnownRoot(tree_account, RootOf(m))
    /\ ncalls = ROOT_HISTORY_SIZE =>
          \A m \in 1..ncalls : IsKnownRoot(tree_account, RootOf(m))

\* The history is full of pairwise different roots, the empty root among
\* them, and every one is known.
C14_Witness ==
    /\ ncalls = ROOT_HISTORY_SIZE - 1
    /\ \A m, n \in 0..ncalls : m # n => RootOf(m) # RootOf(n)
    /\ \A m \in 0..ncalls : IsKnownRoot(tree_account, RootOf(m))

\* The latest append number m <= n with m mod ROOT_HISTORY_SIZE = j.
LatestAppend(j, n) ==
    CHOOSE m \in 0..n :
        /\ m % ROOT_HISTORY_SIZE = j
        /\ \A k \in 0..n : k % ROOT_HISTORY_SIZE = j => k <= m

\* After n appends the cursor is n mod ROOT_HISTORY_SIZE and every slot
\* written so far holds the root of the latest append that maps to it.
SlotsHoldLatest ==
    /\ tree_account.root_index = ncalls % ROOT_HISTORY_SIZE
    /\ \A j \in 0..(ROOT_HISTORY_SIZE - 1) :
          j <= ncalls =>
              tree_account.root_history[j] = RootOf(LatestAppend(j, ncalls))

\* After exactly ROOT_HISTORY_SIZE + 1 appends the cursor is 1 and the
\* slots 0 and 1 hold the roots of the last two appends.
WrappedOnce ==
    ncalls = ROOT_HISTORY_SIZE + 1 =>
        /\ tree_account.root_index = 1
        /\ tree_account.root_history[0] = RootOf(ROOT_HISTORY_SIZE)
        /\ tree_account.root_history[1] = RootOf(ROOT_HISTORY_SIZE + 1)

\* C15 as stated: the cursor and the slots follow the appends modulo
\* ROOT_HISTORY_SIZE, and after ROOT_HISTORY_SIZE + 1 appends the root of
\* the first append is no longer known.
C15_CircularOverwrite ==
    /\ SlotsHoldLatest
    /\ WrappedOnce
    /\ ncalls = ROOT_HISTORY_SIZE + 1 => ~IsKnownRoot(tree_account, RootOf(1))

\* C15, amended: the cursor and the slots follow the appends modulo
\* ROOT_HISTORY_SIZE, and after ROOT_HISTORY_SIZE + 1 appends the root of
\* the first append is known exactly when a later append produced the same
\* root again.
C15_CircularOverwriteAmended ==
    /\ SlotsHoldLatest
    /\ WrappedOnce
    /\ ncalls = ROOT_HISTORY_SIZE + 1 =>
          (IsKnownRoot(tree_account, RootOf(1))
              <=> \E m \in 2..ncalls : RootOf(m) = RootOf(1))

\* The ring has wrapped once over pairwise different roots: the root of the
\* first append is forgotten, that of the second is still known.
C15_Witness ==
    /\ ncalls = ROOT_HISTORY_SIZE + 1
    /\ \A m, n \in 0..ncalls : m # n => RootOf(m) # RootOf(n)
    /\ tree_account.root_index = 1
    /\ ~IsKnownRoot(tree_account, RootOf(1))
    /\ IsKnownRoot(tree_account, RootOf(2))

C18_InitialState ==
    ncalls = 0 =>
        \A t \in {tree_account, result.twin} :
            /\ t.next_index = 0
            /\ t.root_index = 0
            /\ \A i \in 0..(DEFAULT_HEIGHT - 1) : t.subtrees[i] = ZeroBytes(i)
            /\ t.root = ZeroBytes(DEFAULT_HEIGHT)
            /\ t.root_history[0] = t.root
            /\ IsKnownRoot(t, t.root)

\* The accumulator right after initialize_tree.
C18_Witness ==
    /\ ncalls = 0
    /\ tree_account = InitializeTree("authority", "mint")
    /\ tree_account.root_history[0] = ZeroBytes(DEFAULT_HEIGHT)
    /\ IsKnownRoot(tree_account, tree_account.root)

\* The leaf fed at position k (positions are used once each).
FedLeaf(k) == (CHOOSE c \in commitment_accounts : c.index = k).commitment

\* The node at the given level and position of the complete binary hash
\* tree whose leaf k is the leaf fed at position k for k < n and the empty
\* leaf otherwise.
RECURSIVE ReferenceNode(_, _, _)
ReferenceNode(level, position, n) ==
    IF level = 0
    THEN IF position < n THEN FedLeaf(position) ELSE Zero
    ELSE Hash(ReferenceNode(level - 1, 2 * position, n),
              ReferenceNode(level - 1, 2 * position + 1, n))

\* The latest append (numbered from 0) below n whose path is a left node at
\* the given level.
LatestLeft(level, n) ==
    CHOOSE k \in 0..(n - 1) :
        /\ (k \div (2 ^ level)) % 2 = 0
        /\ \A m \in 0..(n - 1) : (m \div (2 ^ level)) % 2 = 0 => m <= k

\* C24: after n <= 2^DEFAULT_HEIGHT appends the root is the root of the
\* complete binary hash tree over the n leaves padded with empty leaves, and
\* subtrees[i] is the left node at level i on the path of the latest append
\* that passed a left node there, as it was when that append was made (the
\* empty-subtree constant before the first append).
C24_ReferenceRoot ==
    ncalls <= Capacity =>
        /\ tree_account.root = ReferenceNode(DEFAULT_HEIGHT, 0, ncalls)
        /\ \A i \in 0..(DEFAULT_HEIGHT - 1) :
              tree_account.subtrees[i] =
                  IF ncalls = 0 THEN ZeroBytes(i)
                  ELSE LET k == LatestLeft(i, ncalls)
                       IN  ReferenceNode(i, k \div (2 ^ i), k + 1)

\* The tree is full of nonzero leaves, not all equal.
C24_Witness ==
    /\ ncalls = Capacity
    /\ \A k \in 0..(Capacity - 1) : FedLeaf(k) # Zero
    /\ FedLeaf(0) # FedLeaf(1)
    /\ tree_account.root = ReferenceNode(DEFAULT_HEIGHT, 0, Capacity)
    /\ tree_account.subtrees[0] = FedLeaf(Capacity - 2)


\* The committed transactions a root outlives: each appends two leaves.
TxWindow == (ROOT_HISTORY_SIZE - 1) \div 2

\* The root of append m was produced again by one of the last
\* ROOT_HISTORY_SIZE appends.
StoredAgain(m) ==
    \E k \in (m + 1)..ncalls :
        ncalls - k <= ROOT_HISTORY_SIZE - 1 /\ RootOf(k) = RootOf(m)

\* C34: length of the replay window.  The root stored by an append, or by
\* the initialization, stays known throughout the next ROOT_HISTORY_SIZE - 1
\* appends and, unless an equal root is stored again, is rejected from the
\* ROOT_HISTORY_SIZE-th subsequent append on; so the root current after a
\* transaction (two appends) is still known after TxWindow further
\* transactions and no longer after TxWindow + 1.
C34_ReplayWindow ==
    /\ \A m \in 0..ncalls :
          /\ ncalls - m <= ROOT_HISTORY_SIZE - 1 => IsKnownRoot(tree_account, RootOf(m))
          /\ ncalls - m >= ROOT_HISTORY_SIZE =>
                (IsKnownRoot(tree_account, RootOf(m)) <=> StoredAgain(m))
    /\ \A j, k \in 0..ncalls :
          2 * j + 2 * k = ncalls =>
              /\ k <= TxWindow => IsKnownRoot(tree_account, RootOf(2 * j))
              /\ k = TxWindow + 1 =>
                    (IsKnownRoot(tree_account, RootOf(2 * j)) <=> StoredAgain(2 * j))

\* The root of the initialization, known after ROOT_HISTORY_SIZE - 1
\* appends of pairwise different roots, is rejected after one more.
C34_Witness ==
    /\ ncalls = ROOT_HISTORY_SIZE
    /\ \A m, n \in 0..ncalls : m # n => RootOf(m) # RootOf(n)
    /\ IsKnownRoot(pre, RootOf(0))
    /\ ~IsKnownRoot(tree_account, RootOf(0))
    /\ IsKnownRoot(tree_account, RootOf(1))
---------------------------------------------------------------------------
(* utils.rs: the amount check.                                             *)

AmountErr == [kind |-> "Err", code |-> "InvalidPublicAmountData", amount |-> 0, fee |-> 0]

AmountPanic == [kind |-> "Panic", code |-> "Panic", amount |-> 0, fee |-> 0]

AmountOk(amount, fee) == [kind |-> "Ok", code |-> "Ok", amount |-> amount, fee |-> fee]

\* check_external_amount without the test that the value fits in i64.
CheckExternalAmount_NoI64Test(ext_amount, fee, public_amount_bytes) ==
    LET public_amount == public_amount_bytes % (U64_MAX + 1)
    IN  IF public_amount_bytes \div (U64_MAX + 1) # 0 THEN AmountErr
        ELSE IF ext_amount > 0 THEN
            IF public_amount + fee > U64_MAX THEN AmountPanic
            ELSE IF public_amount + fee # ext_amount THEN AmountErr
            ELSE AmountOk(ext_amount, fee)
        ELSE IF ext_amount < 0 THEN
            IF ext_amount = I64_MIN THEN AmountPanic
            ELSE IF (-ext_amount) + fee > U64_MAX THEN AmountPanic
            ELSE IF public_amount # (-ext_amount) + fee THEN AmountErr
            ELSE AmountOk(-ext_amount, fee)
        ELSE AmountOk(0, fee)

\* check_external_amount.  public_amount_bytes is the 32-byte big-endian
\* value: its first 24 bytes are the part above the low 8-byte word.
\* checked_add(..).unwrap() and the negation of i64::MIN abort the program.
CheckExternalAmount(ext_amount, fee, public_amount_bytes) ==
    LET public_amount == public_amount_bytes % (U64_MAX + 1)
    IN  IF public_amount_bytes \div (U64_MAX + 1) # 0 THEN AmountErr
        ELSE IF public_amount > I64_MAX THEN AmountErr
        ELSE IF ext_amount > 0 THEN
            IF public_amount + fee > U64_MAX THEN AmountPanic
            ELSE IF public_amount + fee # ext_amount THEN AmountErr
            ELSE AmountOk(ext_amount, fee)
        ELSE IF ext_amount < 0 THEN
            IF ext_amount = I64_MIN THEN AmountPanic
            ELSE IF (-ext_amount) + fee > U64_MAX THEN AmountPanic
            ELSE IF public_amount # (-ext_amount) + fee THEN AmountErr
            ELSE AmountOk(-ext_amount, fee)
        ELSE AmountOk(0, fee)

\* Fr::from_be_bytes_mod_order of a 32-byte value.
FrFromBeBytesModOrder(bytes32) == bytes32 % FIELD_SIZE

\* check_public_amount, which lib.rs calls: the modular-arithmetic check
\* of the design (section 4.4).
CheckPublicAmount(ext_amount, fee, public_amount_bytes) ==
    IF ext_amount = I64_MIN THEN FALSE
    ELSE IF ext_amount > 0 THEN
        IF ext_amount <= fee THEN FALSE
        ELSE FrFromBeBytesModOrder(public_amount_bytes) = (ext_amount - fee) % FIELD_SIZE
    ELSE IF ext_amount < 0 THEN
        FrFromBeBytesModOrder(public_amount_bytes)
            = (FIELD_SIZE - (((-ext_amount) + fee) % FIELD_SIZE)) % FIELD_SIZE
    ELSE TRUE

(* The amount check applied to every triple of arguments. *)

InitAmount ==
    /\ tree_account = InitializedTree
    /\ account_keys = {}
    /\ commitment_accounts = {}
    /\ balances = <<>>
    /\ spent = <<>>
    /\ phase = "idle"
    /\ call \in [ op            : {"amount_check"},
                  ext_amount    : I64_MIN..I64_MAX,
                  fee           : 0..U64_MAX,
                  public_amount : 0..BYTES32_MAX ]
    /\ result = NoCall
    /\ log = <<>>
    /\ failed = "none"
    /\ pre = tree_account
    /\ ncalls = 0

CheckExternalAmountCall ==
    /\ phase = "idle"
    /\ phase' = "done"
    /\ result' = [ op  |-> "check_external_amount",
                   ret |-> CheckExternalAmount(call.ext_amount, call.fee, call.public_amount) ]
    /\ UNCHANGED <<tree_account, account_keys, commitment_accounts, balances, spent,
                   call, log, failed, pre, ncalls>>

CheckPublicAmountCall ==
    /\ phase = "idle"
    /\ phase' = "done"
    /\ result' = [ op  |-> "check_public_amount",
                   ret |-> IF CheckPublicAmount(call.ext_amount, call.fee, call.public_amount)
                           THEN AmountOk(0, 0) ELSE AmountErr ]
    /\ UNCHANGED <<tree_account, account_keys, commitment_accounts, balances, spent,
                   call, log, failed, pre, ncalls>>

NextAmount == CheckExternalAmountCall \/ CheckPublicAmountCall

SpecAmount == InitAmount /\ [][NextAmount]_vars

---------------------------------------------------------------------------
(* Claims on the amount check (SpecAmount).                                *)

\* C9: for ext_amount > 0, check_external_amount rejects when
\* ext_amount <= fee, and otherwise accepts exactly when public_amount is
\* congruent to ext_amount - fee modulo p.
C9_DepositRule ==
    (result.op = "check_external_amount" /\ call.ext_amount > 0) =>
        ((result.ret.kind = "Ok")
            = (/\ call.ext_amount > call.fee
               /\ call.public_amount % FIELD_SIZE
                    = (call.ext_amount - call.fee) % FIELD_SIZE))

\* C10: for ext_amount < 0, check_external_amount accepts exactly when
\* public_amount is congruent to -(|ext_amount| + fee) modulo p, that is,
\* equals p - ((|ext_amount| + fee) mod p).
C10_WithdrawalRule ==
    (result.op = "check_external_amount" /\ call.ext_amount < 0
        /\ call.ext_amount # I64_MIN) =>
        ((result.ret.kind = "Ok")
            = (call.public_amount % FIELD_SIZE
                 = (FIELD_SIZE - (((-call.ext_amount) + call.fee) % FIELD_SIZE))
                      % FIELD_SIZE))

\* C11: when ext_amount = 0, check_external_amount accepts for every fee
\* and every 32-byte public_amount.
C11_ZeroAmountAccepted ==
    (result.op = "check_external_amount" /\ call.ext_amount = 0) =>
        result.ret.kind = "Ok"

\* C12: when ext_amount is the most negative value, check_external_amount
\* returns a rejection for every fee and public_amount.
C12_MostNegativeRejected ==
    (result.op = "check_external_amount" /\ call.ext_amount = I64_MIN) =>
        result.ret.kind = "Err"


\* The part of the 32-byte public_amount held by its first 24 bytes, and
\* the value of its low 8 bytes.
First24Bytes(bytes32) == bytes32 \div (U64_MAX + 1)
Low8Bytes(bytes32) == bytes32 % (U64_MAX + 1)

C31_AmountCheckTotal ==
    result.op = "check_external_amount" => result.ret.kind \in {"Ok", "Err"}
---------------------------------------------------------------------------
(* lib.rs: one pool (one token mint, an SPL mint) and its transact.        *)

NumNullifiers == 4
NumCommitments == 4

MINT == "mint"
OTHER_MINT == "other_mint"
AUTHORITY == "authority"
Users == {"alice", "bob"}
TokenAccounts == {"vault_ata", "alice_ata", "bob_ata", "fee_ata"}

\* The owner recorded in each token account.
TokenOwner ==
    [ vault_ata |-> "vault_authority", alice_ata |-> "alice",
      bob_ata   |-> "bob",             fee_ata   |-> AUTHORITY ]

\* Pubkey::find_program_address(&[tag, token_mint, value], program_id).
Pda(tag, mint, value) == <<tag, mint, value>>

\* An address that is no PDA of the program.
ForeignKey == <<"foreign", MINT, 0>>

ExtAmounts == {I64_MIN, -2, -1, 0, 1, 2}
Fees == {0, 1}
EncryptedOutputs == {1, 2}

\* A serialization that leaves the recipient out.
Serialize_NoRecipient(ext_data) ==
    << 0,
       IF ext_data.ext_amount = I64_MIN THEN 0 ELSE ext_data.ext_amount + 3,
       ext_data.encrypted_output1 - 1,
       ext_data.encrypted_output2 - 1,
       ext_data.fee >>

\* Borsh serialization of ExtData, field by field in declaration order.
Serialize(ext_data) ==
    << IF ext_data.recipient = "alice" THEN 0 ELSE 1,
       IF ext_data.ext_amount = I64_MIN THEN 0 ELSE ext_data.ext_amount + 3,
       ext_data.encrypted_output1 - 1,
       ext_data.encrypted_output2 - 1,
       ext_data.fee >>

\* A 32-byte value is two words; these read it in the other byte order.
WORD == U64_MAX + 1
ByteReverse(bytes32) == (bytes32 % WORD) * WORD + (bytes32 \div WORD)

\* solana_program::hash::hash: collision-free on the serializations; the
\* digest of the serialization numbered k reads k in little-endian order.
Sha256(ser) ==
    ByteReverse((((ser[1] * 6 + ser[2]) * 2 + ser[3]) * 2 + ser[4]) * 2 + ser[5])

FrFromLeBytesModOrder(bytes32) == ByteReverse(bytes32) % FIELD_SIZE

\* What the prover computes for the ExtData it proves (big-endian field element).
ProverExtDataHash(ext_data) == FrFromLeBytesModOrder(Sha256(Serialize(ext_data)))

\* The circuit's public amount for (ext_amount, fee): ext_amount - fee mod p.
ProverPublicAmount(ext_amount, fee) ==
    IF ext_amount > 0 /\ ext_amount >= fee THEN (ext_amount - fee) % FIELD_SIZE
    ELSE (FIELD_SIZE - ((fee - ext_amount) % FIELD_SIZE)) % FIELD_SIZE

Persisted ==
    [ tree        |-> tree_account,
      keys        |-> account_keys,
      commitments |-> commitment_accounts,
      balances    |-> balances ]

\* The execution of one instruction: the accounts as written so far, the
\* error (or "Ok"), the steps passed in order, and the step that failed.
StartCtx(s) == [st |-> s, err |-> "Ok", log |-> <<>>, failed |-> "none"]
Pass(c, step, st) == [c EXCEPT !.st = st, !.log = Append(@, step)]
Fail(c, step, code, st) == [c EXCEPT !.st = st, !.err = code, !.failed = step]
\* A require! whose failure is reported but does not return.
Require_NoReturn(c, step, cond, code) ==
    IF c.err # "Ok" \/ ~cond THEN c ELSE Pass(c, step, c.st)

Require(c, step, cond, code) ==
    IF c.err # "Ok" THEN c
    ELSE IF cond THEN Pass(c, step, c.st) ELSE Fail(c, step, code, c.st)

\* #[account(init_if_needed, ...)]: an existing account is taken as it is.
InitAccount_IfNeeded(c, step, key) ==
    IF c.err # "Ok" THEN c ELSE Pass(c, step, [c.st EXCEPT !.keys = @ \cup {key}])

\* #[account(init, ...)]: the system program creates the account, and
\* refuses an address that is already in use.
InitAccount(c, step, key) ==
    IF c.err # "Ok" THEN c
    ELSE IF key \in c.st.keys THEN Fail(c, step, "AccountAlreadyInUse", c.st)
    ELSE Pass(c, step, [c.st EXCEPT !.keys = @ \cup {key}])

\* The two commitment accounts declared init_if_needed.
TryAccounts_CommitmentsIfNeeded(c, tx) ==
    LET c1 == InitAccount(c,  "init_nullifier0",  tx.accounts.nullifier0)
        c2 == InitAccount(c1, "init_nullifier1",  tx.accounts.nullifier1)
        c3 == InitAccount_IfNeeded(c2, "init_commitment0", tx.accounts.commitment0)
        c4 == InitAccount_IfNeeded(c3, "init_commitment1", tx.accounts.commitment1)
    IN  Require(c4, "seeds",
                tx.accounts.token_mint = MINT /\ tx.accounts.authority = AUTHORITY,
                "ConstraintSeeds")

\* Transact::try_accounts: the four init accounts in declaration order,
\* then the seeds constraints of tree_account and vault_authority.
TryAccounts(c, tx) ==
    LET c1 == InitAccount(c,  "init_nullifier0",  tx.accounts.nullifier0)
        c2 == InitAccount(c1, "init_nullifier1",  tx.accounts.nullifier1)
        c3 == InitAccount(c2, "init_commitment0", tx.accounts.commitment0)
        c4 == InitAccount(c3, "init_commitment1", tx.accounts.commitment1)
    IN  Require(c4, "seeds",
                tx.accounts.token_mint = MINT /\ tx.accounts.authority = AUTHORITY,
                "ConstraintSeeds")

\* The token program's Transfer: the authority must own the source, which
\* must hold the amount; a transfer to the source itself changes nothing.
TokenTransfer(bal, from, to, authorised, amount) ==
    IF ~authorised THEN [err |-> "TokenOwnerMismatch", balances |-> bal]
    ELSE IF bal[from] < amount THEN [err |-> "TokenInsufficientFunds", balances |-> bal]
    ELSE IF from = to THEN [err |-> "Ok", balances |-> bal]
    ELSE IF bal[to] + amount > U64_MAX THEN [err |-> "TokenOverflow", balances |-> bal]
    ELSE [ err      |-> "Ok",
           balances |-> [bal EXCEPT ![from] = @ - amount, ![to] = @ + amount] ]

TransferStep(c, step, from, to, authorised, amount) ==
    IF c.err # "Ok" THEN c
    ELSE LET r == TokenTransfer(c.st.balances, from, to, authorised, amount)
         IN  IF r.err = "Ok" THEN Pass(c, step, [c.st EXCEPT !.balances = r.balances])
             ELSE Fail(c, step, r.err, c.st)

\* handle_deposit, SPL branch: user_token_account -> vault_ata, signed by signer.
HandleDeposit(c, tx, amount) ==
    TransferStep(c, "deposit", tx.accounts.user_token_account, tx.accounts.vault_ata,
                 TokenOwner[tx.accounts.user_token_account] = tx.accounts.signer, amount)

\* handle_withdraw, SPL branch.  vault_amount is vault_ata.amount as
\* deserialized when the instruction began.
HandleWithdraw(c, tx, amount, vault_amount) ==
    TransferStep(
        Require(c, "withdraw_funds", vault_amount >= amount, "InsufficientFundsForWithdrawal"),
        "withdraw", tx.accounts.vault_ata, tx.accounts.user_token_account,
        TokenOwner[tx.accounts.vault_ata] = "vault_authority", amount)

\* handle_fee: vault_ata -> fee_recipient_token_account.
HandleFee(c, tx, fee_amount, vault_amount) ==
    TransferStep(
        Require(c, "fee_funds", vault_amount >= fee_amount, "InsufficientFundsForFee"),
        "fee", tx.accounts.vault_ata, tx.accounts.fee_recipient_token_account,
        TokenOwner[tx.accounts.vault_ata] = "vault_authority", fee_amount)

\* MerkleTree::append(..)?: what append wrote before failing stays in the
\* account data of the failing instruction.
AppendStep(c, step, leaf) ==
    IF c.err # "Ok" THEN c
    ELSE LET r == MerkleAppend(leaf, c.st.tree)
         IN  IF r.err = "Ok" THEN Pass(c, step, [c.st EXCEPT !.tree = r.tree])
             ELSE Fail(c, step, r.err, [c.st EXCEPT !.tree = r.tree])

CommitmentRecord(key, commitment, encrypted_output, index) ==
    [ key |-> key, commitment |-> commitment,
      encrypted_output |-> encrypted_output, index |-> index ]

\* The two commitment records written with the same index.
WriteCommitments_SameIndex(c, tx, next_index_to_insert) ==
    LET rec0 == CommitmentRecord(tx.accounts.commitment0, tx.proof.output_commitments[1],
                                 tx.ext_data.encrypted_output1, next_index_to_insert)
        rec1 == CommitmentRecord(tx.accounts.commitment1, tx.proof.output_commitments[2],
                                 tx.ext_data.encrypted_output2, next_index_to_insert)
    IN  IF c.err # "Ok" THEN c
        ELSE Pass(c, "write_commitments", [c.st EXCEPT !.commitments = @ \cup {rec0, rec1}])

\* lib.rs 161-174: the two commitment records (the bumps are functions of the keys).
WriteCommitments(c, tx, next_index_to_insert) ==
    LET rec0 == CommitmentRecord(tx.accounts.commitment0, tx.proof.output_commitments[1],
                                 tx.ext_data.encrypted_output1, next_index_to_insert)
        rec1 == CommitmentRecord(tx.accounts.commitment1, tx.proof.output_commitments[2],
                                 tx.ext_data.encrypted_output2, next_index_to_insert + 1)
    IN  IF c.err # "Ok" THEN c
        ELSE IF next_index_to_insert + 1 > U64_MAX
        THEN Fail(c, "write_commitments", "ArithmeticOverflow",
                  [c.st EXCEPT !.commitments = @ \cup {rec0}])
        ELSE Pass(c, "write_commitments", [c.st EXCEPT !.commitments = @ \cup {rec0, rec1}])

\* Groth16Verifier::verify behind utils::verify_proof: every public input
\* must be below the field modulus, and the pairing equation must hold
\* (proof.verifies: whether it holds for this proof and these inputs).
VerifyProof(proof) ==
    /\ proof.public_amount < FIELD_SIZE
    /\ proof.ext_data_hash < FIELD_SIZE
    /\ proof.verifies

\* The transfers of lib.rs 141-154.
Transfers(c, tx, vault_amount) ==
    LET ext_amount == tx.ext_data.ext_amount
        fee == tx.ext_data.fee
        moved == IF c.err # "Ok" THEN c
                 ELSE IF ext_amount > 0 THEN HandleDeposit(c, tx, ext_amount)
                 ELSE IF ext_amount < 0 THEN
                     IF ext_amount = I64_MIN
                     THEN Fail(c, "withdraw", "ArithmeticOverflow", c.st)
                     ELSE HandleWithdraw(c, tx, -ext_amount, vault_amount)
                 ELSE c
    IN  IF moved.err = "Ok" /\ fee > 0 THEN HandleFee(moved, tx, fee, vault_amount) ELSE moved

\* A handler that verifies the proof before it looks at the root.
VerifyAndProcessTransaction_ProofFirst(c, tx, vault_amount) ==
    LET proof == tx.proof
        a  == tx.accounts
        c1 == Require(c, "pda_nullifier0",
                      a.nullifier0 = Pda("nullifier", a.token_mint, proof.input_nullifiers[1]),
                      "Unauthorized")
        c2 == Require(c1, "pda_nullifier1",
                      a.nullifier1 = Pda("nullifier", a.token_mint, proof.input_nullifiers[2]),
                      "Unauthorized")
        c3 == Require(c2, "pda_commitment0",
                      a.commitment0 = Pda("commitment", a.token_mint, proof.output_commitments[1]),
                      "Unauthorized")
        c4 == Require(c3, "pda_commitment1",
                      a.commitment1 = Pda("commitment", a.token_mint, proof.output_commitments[2]),
                      "Unauthorized")
        c5 == Require(c4, "authority", a.authority = AUTHORITY, "Unauthorized")
        c6 == Require(c5, "token_mint", a.token_mint = MINT, "TokenMintMismatch")
        p0 == Require(c6, "verify_proof", VerifyProof(proof), "InvalidProof")
        c7 == Require(p0, "known_root", IsKnownRoot(c.st.tree, proof.root), "UnknownRoot")
        c8 == Require(c7, "ext_data_hash",
                      FrFromLeBytesModOrder(Sha256(Serialize(tx.ext_data)))
                          = FrFromBeBytesModOrder(proof.ext_data_hash),
                      "ExtDataHashMismatch")
        c9 == Require(c8, "public_amount",
                      CheckPublicAmount(tx.ext_data.ext_amount, tx.ext_data.fee,
                                        proof.public_amount),
                      "InvalidPublicAmountData")
        c10 == c9
        c11 == Transfers(c10, tx, vault_amount)
        c12 == AppendStep(c11, "append0", Leaf(proof.output_commitments[1]))
        c13 == AppendStep(c12, "append1", Leaf(proof.output_commitments[2]))
    IN  WriteCommitments(c13, tx, c.st.tree.next_index)

\* verify_and_process_transaction, in the order of its statements.
VerifyAndProcessTransaction(c, tx, vault_amount) ==
    LET proof == tx.proof
        a  == tx.accounts
        c1 == Require(c, "pda_nullifier0",
                      a.nullifier0 = Pda("nullifier", a.token_mint, proof.input_nullifiers[1]),
                      "Unauthorized")
        c2 == Require(c1, "pda_nullifier1",
                      a.nullifier1 = Pda("nullifier", a.token_mint, proof.input_nullifiers[2]),
                      "Unauthorized")
        c3 == Require(c2, "pda_commitment0",
                      a.commitment0 = Pda("commitment", a.token_mint, proof.output_commitments[1]),
                      "Unauthorized")
        c4 == Require(c3, "pda_commitment1",
                      a.commitment1 = Pda("commitment", a.token_mint, proof.output_commitments[2]),
                      "Unauthorized")
        c5 == Require(c4, "authority", a.authority = AUTHORITY, "Unauthorized")
        c6 == Require(c5, "token_mint", a.token_mint = MINT, "TokenMintMismatch")
        c7 == Require(c6, "known_root", IsKnownRoot(c.st.tree, proof.root), "UnknownRoot")
        c8 == Require(c7, "ext_data_hash",
                      FrFromLeBytesModOrder(Sha256(Serialize(tx.ext_data)))
                          = FrFromBeBytesModOrder(proof.ext_data_hash),
                      "ExtDataHashMismatch")
        c9 == Require(c8, "public_amount",
                      CheckPublicAmount(tx.ext_data.ext_amount, tx.ext_data.fee,
                                        proof.public_amount),
                      "InvalidPublicAmountData")
        c10 == Require(c9, "verify_proof", VerifyProof(proof), "InvalidProof")
        c11 == Transfers(c10, tx, vault_amount)
        c12 == AppendStep(c11, "append0", Leaf(proof.output_commitments[1]))
        c13 == AppendStep(c12, "append1", Leaf(proof.output_commitments[2]))
    IN  WriteCommitments(c13, tx, c.st.tree.next_index)

\* An instruction whose accounts are created after the handler has run.
RunTransact_HandlerFirst(s, tx) ==
    TryAccounts(VerifyAndProcessTransaction(StartCtx(s), tx,
                                            s.balances[tx.accounts.vault_ata]), tx)

\* The instruction as the runtime executes it on the accounts s.
RunTransact(s, tx) ==
    VerifyAndProcessTransaction(TryAccounts(StartCtx(s), tx), tx,
                                s.balances[tx.accounts.vault_ata])

\* A runtime that keeps what a failed instruction wrote.
Commit_KeepsWrites(c, s) == c.st

\* The runtime keeps the accounts an instruction wrote only if it returned Ok.
Commit(c, s) == IF c.err = "Ok" THEN c.st ELSE s

---------------------------------------------------------------------------
(* The pool's states at the start, and the transactions submitted to it.   *)

InitialBalances == [vault_ata |-> 2, alice_ata |-> 3, bob_ata |-> 1, fee_ata |-> 0]

FreshPool ==
    [ tree |-> InitializedTree, keys |-> {}, commitments |-> {}, balances |-> InitialBalances ]

\* A pool whose tree has taken all but the last two leaves its counter can count.
AgedPool ==
    [ tree        |-> AppendAll([i \in 1..(U64_MAX - 1) |-> AgedLeaf(i)], InitializedTree),
      keys        |-> UNION {{Pda("nullifier", MINT, 100 + i), Pda("commitment", MINT, 100 + i)}
                              : i \in 1..(U64_MAX - 1)},
      commitments |-> {CommitmentRecord(Pda("commitment", MINT, 100 + i), 100 + i, 1, i - 1)
                          : i \in 1..(U64_MAX - 1)},
      balances    |-> InitialBalances ]

Min(S) == CHOOSE x \in S : \A y \in S : x <= y

\* Two values whose accounts do not exist yet, if there are two.
FreshPair(s, tag, n) ==
    LET free == {v \in 1..n : Pda(tag, MINT, v) \notin s.keys}
    IN  IF Cardinality(free) >= 2 THEN <<Min(free), Min(free \ {Min(free)})>> ELSE <<1, 2>>

BaseExtData ==
    [ recipient |-> "alice", ext_amount |-> 2,
      encrypted_output1 |-> 1, encrypted_output2 |-> 2, fee |-> 1 ]

\* The accounts a client derives for its proof.
HonestAccounts(ins, outs, user_account) ==
    [ nullifier0  |-> Pda("nullifier", MINT, ins[1]),
      nullifier1  |-> Pda("nullifier", MINT, ins[2]),
      commitment0 |-> Pda("commitment", MINT, outs[1]),
      commitment1 |-> Pda("commitment", MINT, outs[2]),
      token_mint  |-> MINT,
      authority   |-> AUTHORITY,
      vault_ata   |-> "vault_ata",
      user_token_account |-> user_account,
      fee_recipient_token_account |-> "fee_ata",
      signer      |-> TokenOwner[user_account] ]

\* A transaction as its prover builds it: proved is the ExtData the proof
\* was generated for.
HonestTx(s, ins, outs, ext_data, user_account) ==
    [ op       |-> "transact",
      proof    |-> [ root               |-> s.tree.root,
                     public_amount      |-> ProverPublicAmount(ext_data.ext_amount, ext_data.fee),
                     ext_data_hash      |-> ProverExtDataHash(ext_data),
                     input_nullifiers   |-> ins,
                     output_commitments |-> outs,
                     verifies           |-> TRUE ],
      ext_data |-> ext_data,
      accounts |-> HonestAccounts(ins, outs, user_account),
      proved   |-> ext_data ]

BaseTx(s) ==
    HonestTx(s, FreshPair(s, "nullifier", NumNullifiers),
             FreshPair(s, "commitment", NumCommitments), BaseExtData, "alice_ata")

\* Every pair of input nullifiers, with a proof that verifies or not.
NoteTxs(s) ==
    { [ HonestTx(s, <<i, j>>, FreshPair(s, "commitment", NumCommitments),
                 BaseExtData, "alice_ata") EXCEPT !.proof.verifies = v ]
        : i \in 1..NumNullifiers, j \in 1..NumNullifiers, v \in BOOLEAN }

\* Every pair of output commitments.
OutputTxs(s) ==
    { HonestTx(s, FreshPair(s, "nullifier", NumNullifiers), <<i, j>>, BaseExtData, "alice_ata")
        : i \in 1..NumCommitments, j \in 1..NumCommitments }

\* Every amount and fee, with the public amount of the circuit, the same
\* plus the modulus, or one more; paid from or to either user's account.
AmountTxs(s) ==
    { [ HonestTx(s, FreshPair(s, "nullifier", NumNullifiers),
                 FreshPair(s, "commitment", NumCommitments),
                 [BaseExtData EXCEPT !.ext_amount = e, !.fee = f], u)
          EXCEPT !.proof.public_amount = (@ + d) % (BYTES32_MAX + 1) ]
        : e \in ExtAmounts, f \in Fees, u \in {"alice_ata", "bob_ata"},
          d \in {0, 1, FIELD_SIZE} }

\* ExtData with one field changed after the proof was generated.
Mutations(ext_data) ==
    {[ext_data EXCEPT !.recipient = r] : r \in Users}
        \cup {[ext_data EXCEPT !.ext_amount = e] : e \in ExtAmounts}
        \cup {[ext_data EXCEPT !.fee = f] : f \in Fees}
        \cup {[ext_data EXCEPT !.encrypted_output1 = o] : o \in EncryptedOutputs}
        \cup {[ext_data EXCEPT !.encrypted_output2 = o] : o \in EncryptedOutputs}

\* Any root with a proof that verifies or not; an ExtData that is a
\* mutation of the proved one; the proved hash plus the modulus.
CheckTxs(s) ==
    { [BaseTx(s) EXCEPT !.proof.root = r, !.proof.verifies = v]
        : r \in CandidateRoots(s.tree), v \in BOOLEAN }
      \cup { [BaseTx(s) EXCEPT !.ext_data = m, !.proof.verifies = v, !.proof.root = r]
               : m \in Mutations(BaseExtData), v \in BOOLEAN,
                 r \in {s.tree.root, BogusRoot} }
      \cup { [BaseTx(s) EXCEPT !.proof.ext_data_hash = @ + FIELD_SIZE, !.proof.root = r]
               : r \in {s.tree.root, BogusRoot} }

\* One account of the instruction replaced.
AccountTxs(s) ==
    { [BaseTx(s) EXCEPT !.accounts = a]
        : a \in {[BaseTx(s).accounts EXCEPT !.nullifier0 = ForeignKey],
                  [BaseTx(s).accounts EXCEPT !.nullifier1 = ForeignKey],
                  [BaseTx(s).accounts EXCEPT !.commitment0 = ForeignKey],
                  [BaseTx(s).accounts EXCEPT !.commitment1 = ForeignKey],
                  [BaseTx(s).accounts EXCEPT !.nullifier0 = Pda("nullifier", OTHER_MINT, 1)],
                  [BaseTx(s).accounts EXCEPT !.token_mint = OTHER_MINT],
                  [BaseTx(s).accounts EXCEPT !.authority = "mallory"],
                  [BaseTx(s).accounts EXCEPT !.signer = "mallory"],
                  [BaseTx(s).accounts EXCEPT !.user_token_account = "bob_ata"]} }

\* A call that moves no amount, with or without a fee, whose proof is for
\* a public amount of 0 or 1.
FeeOnlyTxs(s) ==
    { [ HonestTx(s, FreshPair(s, "nullifier", NumNullifiers),
                 FreshPair(s, "commitment", NumCommitments),
                 [BaseExtData EXCEPT !.ext_amount = 0, !.fee = f], "alice_ata")
          EXCEPT !.proof.public_amount = a ]
        : f \in Fees, a \in {0, 1} }

TxInputs(s) ==
    NoteTxs(s) \cup OutputTxs(s) \cup AmountTxs(s) \cup CheckTxs(s) \cup AccountTxs(s)
        \cup FeeOnlyTxs(s)

Init ==
    /\ \E s \in {FreshPool, AgedPool} :
          /\ tree_account = s.tree
          /\ account_keys = s.keys
          /\ commitment_accounts = s.commitments
          /\ balances = s.balances
          /\ pre = s
    /\ spent = [n \in 1..NumNullifiers |-> 0]
    /\ phase = "idle"
    /\ call = NoCall
    /\ result = NoCall
    /\ log = <<>>
    /\ failed = "none"
    /\ ncalls = 0

\* The instruction transact(proof, ext_data) with its accounts.
Transact(tx) ==
    /\ phase = "idle"
    /\ LET c == RunTransact(Persisted, tx)
           s == Commit(c, Persisted)
       IN  /\ tree_account' = s.tree
           /\ account_keys' = s.keys
           /\ commitment_accounts' = s.commitments
           /\ balances' = s.balances
           /\ result' = [op |-> "transact", err |-> c.err]
           /\ log' = c.log
           /\ failed' = c.failed
           /\ spent' = IF c.err # "Ok" THEN spent
                       ELSE [n \in DOMAIN spent |->
                               spent[n] + (IF tx.proof.input_nullifiers[1] = n THEN 1 ELSE 0)
                                        + (IF tx.proof.input_nullifiers[2] = n THEN 1 ELSE 0)]
    /\ call' = tx
    /\ pre' = Persisted
    /\ phase' = "done"
    /\ UNCHANGED ncalls

\* The client has its answer; the next instruction can be submitted.
Return ==
    /\ phase = "done"
    /\ phase' = "idle"
    /\ call' = NoCall
    /\ result' = NoCall
    /\ log' = <<>>
    /\ failed' = "none"
    /\ pre' = Persisted
    /\ UNCHANGED <<tree_account, account_keys, commitment_accounts, balances, spent, ncalls>>

Next ==
    \/ \E tx \in TxInputs(Persisted) : Transact(tx)
    \/ Return

Spec == Init /\ [][Next]_vars

---------------------------------------------------------------------------
(* Two transactions prepared against the same state of the pool that name  *)
(* a common input nullifier.  Both write the tree account, so the runtime  *)
(* executes them one after the other, in either order.                     *)

RaceExtDatas ==
    { BaseExtData,
      [BaseExtData EXCEPT !.ext_amount = -1, !.fee = 0],
      [BaseExtData EXCEPT !.ext_amount = 0, !.fee = 0] }

RacePairs ==
    { <<i, j>> \in (1..NumNullifiers) \X (1..NumNullifiers) : i \in {1, 2} \/ j \in {1, 2} }

InitRace ==
    /\ tree_account = FreshPool.tree
    /\ account_keys = FreshPool.keys
    /\ commitment_accounts = FreshPool.commitments
    /\ balances = FreshPool.balances
    /\ pre = FreshPool
    /\ spent = [n \in 1..NumNullifiers |-> 0]
    /\ phase = "race"
    /\ \E ea \in RaceExtDatas, eb \in RaceExtDatas, va \in BOOLEAN, vb \in BOOLEAN,
          ins \in RacePairs :
          call = [ op |-> "race",
                   a  |-> [HonestTx(FreshPool, <<1, 2>>, <<1, 2>>, ea, "alice_ata")
                             EXCEPT !.proof.verifies = va],
                   b  |-> [HonestTx(FreshPool, ins, <<3, 4>>, eb, "bob_ata")
                             EXCEPT !.proof.verifies = vb] ]
    /\ result = [op |-> "race", a |-> "pending", b |-> "pending"]
    /\ log = <<>>
    /\ failed = "none"
    /\ ncalls = 0

\* The runtime executes the transaction w, which has not run yet.
RaceTransact(w) ==
    /\ phase = "race"
    /\ result[w] = "pending"
    /\ LET tx == call[w]
           c  == RunTransact(Persisted, tx)
           s  == Commit(c, Persisted)
       IN  /\ tree_account' = s.tree
           /\ account_keys' = s.keys
           /\ commitment_accounts' = s.commitments
           /\ balances' = s.balances
           /\ result' = [result EXCEPT ![w] = c.err]
           /\ log' = c.log
           /\ failed' = c.failed
           /\ spent' = IF c.err # "Ok" THEN spent
                       ELSE [n \in DOMAIN spent |->
                               spent[n] + (IF tx.proof.input_nullifiers[1] = n THEN 1 ELSE 0)
                                        + (IF tx.proof.input_nullifiers[2] = n THEN 1 ELSE 0)]
    /\ UNCHANGED <<phase, call, pre, ncalls>>

NextRace == \E w \in {"a", "b"} : RaceTransact(w)

SpecRace == InitRace /\ [][NextRace]_vars

---------------------------------------------------------------------------
(* Claims on transact (Spec).                                              *)

Logged(step) == \E i \in 1..Len(log) : log[i] = step

Reserved(s, n) == Pda("nullifier", MINT, n) \in s.keys

HashesAgree(tx) ==
    FrFromLeBytesModOrder(Sha256(Serialize(tx.ext_data))) = tx.proof.ext_data_hash % FIELD_SIZE

\* C1: no nullifier is spent twice.  Each nullifier value is reserved by at
\* most one committed transaction, counting both input slots, so that a
\* transaction whose two input nullifiers are equal does not commit; a
\* reserved nullifier stays reserved; and a transact that names a reserved
\* nullifier is rejected whether or not its proof verifies.
C1_NoDoubleSpend ==
    /\ \A n \in DOMAIN spent : spent[n] <= 1 /\ (spent[n] = 1 => Reserved(Persisted, n))
    /\ phase = "done" =>
          /\ call.proof.input_nullifiers[1] = call.proof.input_nullifiers[2]
                => result.err # "Ok"
          /\ \A k \in 1..2 :
                Reserved(pre, call.proof.input_nullifiers[k]) => result.err # "Ok"

\* A transaction honest in everything, with a proof that verifies, names a
\* nullifier that an earlier committed transaction reserved, and fails.
C1_Witness ==
    /\ phase = "done"
    /\ call.proof.verifies
    /\ call = [BaseTx(pre) EXCEPT !.proof.input_nullifiers = call.proof.input_nullifiers,
                                  !.accounts.nullifier0 = call.accounts.nullifier0,
                                  !.accounts.nullifier1 = call.accounts.nullifier1]
    /\ call.proof.input_nullifiers[1] # call.proof.input_nullifiers[2]
    /\ spent[call.proof.input_nullifiers[2]] = 1
    /\ ~Reserved(pre, call.proof.input_nullifiers[1])
    /\ result.err = "AccountAlreadyInUse"

EffectSteps == {"deposit", "withdraw", "fee", "append0", "append1", "write_commitments"}

CheckSteps == {"authority", "token_mint", "known_root", "ext_data_hash",
               "public_amount", "verify_proof"}

\* C2: checks before effects.  In every execution of transact, a value
\* movement, an append or a commitment record write happens only after the
\* authority and mint checks passed, is_known_root(proof.root) returned
\* true, the ExtData hash matched, the amount check accepted and the proof
\* verified, earlier in the same call.
C2_ChecksBeforeEffects ==
    phase = "done" =>
        \A i \in 1..Len(log) : log[i] \in EffectSteps =>
            /\ \A s \in CheckSteps : \E j \in 1..(i - 1) : log[j] = s
            /\ call.accounts.authority = AUTHORITY
            /\ call.accounts.token_mint = MINT
            /\ call.proof.root # Zero
            /\ call.proof.root \in StoredRoots(pre.tree)
            /\ HashesAgree(call)
            /\ CheckPublicAmount(call.ext_data.ext_amount, call.ext_data.fee,
                                 call.proof.public_amount)
            /\ call.proof.verifies

\* A withdrawal with a fee commits: two transfers, two appends, the records.
C2_Witness ==
    /\ phase = "done"
    /\ result.err = "Ok"
    /\ Logged("withdraw") /\ Logged("fee") /\ Logged("append1") /\ Logged("write_commitments")
    /\ balances # pre.balances

C4_RecipientBinding ==
    (phase = "done" /\ result.err = "Ok" /\ call.ext_data.ext_amount < 0) =>
        TokenOwner[call.accounts.user_token_account] = call.ext_data.recipient

\* C5 as stated: transact is rejected with ExtDataHashMismatch, with no
\* state change, whenever the two field-reduced hashes differ.
C5_ExtDataBinding ==
    (phase = "done" /\ ~HashesAgree(call)) =>
        /\ result.err = "ExtDataHashMismatch"
        /\ Persisted = pre

\* C5, amended: whenever the two field-reduced hashes differ, transact is
\* rejected with no state change, and with ExtDataHashMismatch if the
\* account, authority, mint and root checks that come first all passed;
\* hence a transaction whose ExtData differs in any field from the one its
\* proof was generated for fails.
C5_ExtDataBindingAmended ==
    /\ (phase = "done" /\ ~HashesAgree(call)) =>
          /\ result.err # "Ok"
          /\ Persisted = pre
          /\ Logged("known_root") => result.err = "ExtDataHashMismatch"
    /\ (phase = "done" /\ call.ext_data # call.proved
          /\ call.proof.ext_data_hash = ProverExtDataHash(call.proved)) =>
              result.err # "Ok"

\* The recipient is changed after the proof was generated; everything else
\* would pass, and the transaction fails at the hash comparison.
C5_Witness ==
    /\ phase = "done"
    /\ call = [BaseTx(pre) EXCEPT !.ext_data.recipient = "bob"]
    /\ call.proved.recipient = "alice"
    /\ ~Reserved(pre, call.proof.input_nullifiers[1])
    /\ result.err = "ExtDataHashMismatch"
    /\ failed = "ext_data_hash"
    /\ Persisted = pre

RECURSIVE SumTo(_, _)
SumTo(f, n) == IF n = 0 THEN 0 ELSE f[n] + SumTo(f, n - 1)

\* Committed transactions so far: each one fills two input slots.
NumCommittedTxs == SumTo(spent, NumNullifiers) \div 2

\* C13: next_index increases by exactly 1 on every successful append and by
\* exactly 2 on every committed transaction, is unchanged by a rejected
\* transaction (so it never decreases), and after t committed transactions
\* on a fresh pool it is 2t.
C13_LeafCounter ==
    /\ \A leaf \in Leaves :
          LET r == MerkleAppend(leaf, tree_account)
          IN  r.err = "Ok" => r.tree.next_index = tree_account.next_index + 1
    /\ (phase = "done" /\ result.err = "Ok") =>
          tree_account.next_index = pre.tree.next_index + 2
    /\ (phase = "done" /\ result.err # "Ok") =>
          tree_account.next_index = pre.tree.next_index
    /\ phase = "idle" => tree_account.next_index = pre.tree.next_index
    /\ account_keys \cap AgedPool.keys = {} =>
          tree_account.next_index = 2 * NumCommittedTxs

\* The second transaction on a fresh pool commits: the counter goes from 2 to 4.
C13_Witness ==
    /\ phase = "done"
    /\ result.err = "Ok"
    /\ account_keys \cap AgedPool.keys = {}
    /\ pre.tree.next_index = 2
    /\ tree_account.next_index = 4
    /\ NumCommittedTxs = 2

\* The change of the vault's balance made by the instruction just executed.
VaultDelta == balances["vault_ata"] - pre.balances["vault_ata"]

Committed == phase = "done" /\ result.op = "transact" /\ result.err = "Ok"

\* C21: every committed transaction that changes the vault balance has a
\* nonzero ext_amount and a public_amount fixed by the amount check: a
\* deposit changes the vault by ext_amount - fee, a withdrawal by
\* -(|ext_amount| + fee), and public_amount is that change modulo the field
\* size; no transaction with ext_amount = 0 changes the vault balance.
C21_ValueConservation ==
    (Committed /\ VaultDelta # 0) =>
        /\ call.ext_data.ext_amount # 0
        /\ VaultDelta = call.ext_data.ext_amount - call.ext_data.fee
        /\ (call.proof.public_amount - VaultDelta) % FIELD_SIZE = 0

\* The node at the given level and position of the complete binary hash
\* tree whose leaf k is the commitment recorded with index k, and the empty
\* leaf where no record has that index.
RECURSIVE RecordedNode(_, _)
RecordedNode(level, position) ==
    IF level = 0
    THEN IF \E c \in commitment_accounts : c.index = position
         THEN Leaf((CHOOSE c \in commitment_accounts : c.index = position).commitment)
         ELSE Zero
    ELSE Hash(RecordedNode(level - 1, 2 * position),
              RecordedNode(level - 1, 2 * position + 1))

ReserveSteps == {"init_nullifier0", "init_nullifier1"}

ValueSteps == {"deposit", "withdraw", "fee"}

TreeSteps == {"append0", "append1"}

\* Every step of A in the log comes before every step of B.
Precede(A, B) ==
    \A i, j \in 1..Len(log) : (log[i] \in A /\ log[j] \in B) => i < j

\* C27 as stated: within a committed transaction the order of effects is
\* ValueMoved, TreeUpdated, NullifiersReserved: the two input nullifiers are
\* reserved only after the value movement and after both appends.
C27_ReservationLast ==
    Committed =>
        /\ Precede(ValueSteps, TreeSteps)
        /\ Precede(ValueSteps, ReserveSteps)
        /\ Precede(TreeSteps, ReserveSteps)

\* C27, amended: within every execution of transact the two input
\* nullifiers are reserved first, by the creation of their accounts, before
\* every check of the handler; in a committed transaction the order of
\* effects is NullifiersReserved, ValueMoved, TreeUpdated, and both
\* reservations and both appends have happened.
C27_ReservationFirst ==
    /\ (phase = "done" /\ result.op = "transact") =>
          /\ Precede(ReserveSteps, CheckSteps \cup ValueSteps \cup TreeSteps)
          /\ Precede(ValueSteps, TreeSteps)
          /\ \A i \in 1..Len(log) :
                log[i] \in CheckSteps \cup EffectSteps =>
                    \A r \in ReserveSteps : \E j \in 1..(i - 1) : log[j] = r
    /\ Committed =>
          /\ log[1] = "init_nullifier0"
          /\ log[2] = "init_nullifier1"
          /\ Logged("append0") /\ Logged("append1")

\* A committed deposit with a fee: the reservations, then the transfers,
\* then the appends.
C27_Witness ==
    /\ Committed
    /\ log[1] = "init_nullifier0"
    /\ log[2] = "init_nullifier1"
    /\ Logged("deposit") /\ Logged("fee")
    /\ log[Len(log) - 2] = "append0"
    /\ log[Len(log) - 1] = "append1"

\* The checks of the call taken one by one, on the pool as it was before.
InitKeys(tx) ==
    <<tx.accounts.nullifier0, tx.accounts.nullifier1,
      tx.accounts.commitment0, tx.accounts.commitment1>>

AllNew(tx) ==
    /\ \A i \in 1..4 : InitKeys(tx)[i] \notin pre.keys
    /\ \A i, j \in 1..4 : i # j => InitKeys(tx)[i] # InitKeys(tx)[j]

PdasMatch(tx) ==
    /\ tx.accounts.nullifier0
          = Pda("nullifier", tx.accounts.token_mint, tx.proof.input_nullifiers[1])
    /\ tx.accounts.nullifier1
          = Pda("nullifier", tx.accounts.token_mint, tx.proof.input_nullifiers[2])
    /\ tx.accounts.commitment0
          = Pda("commitment", tx.accounts.token_mint, tx.proof.output_commitments[1])
    /\ tx.accounts.commitment1
          = Pda("commitment", tx.accounts.token_mint, tx.proof.output_commitments[2])

\* The error of the earliest failing check of the handler, in the order
\* given; "none" if every check holds.
FirstFailing(tx, authorized, mint_matches) ==
    IF ~authorized THEN "Unauthorized"
    ELSE IF ~mint_matches THEN "TokenMintMismatch"
    ELSE IF ~IsKnownRoot(pre.tree, tx.proof.root) THEN "UnknownRoot"
    ELSE IF ~HashesAgree(tx) THEN "ExtDataHashMismatch"
    ELSE IF ~CheckPublicAmount(tx.ext_data.ext_amount, tx.ext_data.fee,
                               tx.proof.public_amount)
         THEN "InvalidPublicAmountData"
    ELSE IF ~VerifyProof(tx.proof) THEN "InvalidProof"
    ELSE "none"

VerifierInvoked == Logged("verify_proof") \/ failed = "verify_proof"

TransactDone == phase = "done" /\ result.op = "transact"

\* C28 as stated: when checks of one transact call fail, the error reported
\* is that of the earliest in the order Unauthorized (PDA and authority),
\* TokenMintMismatch, UnknownRoot, ExtDataHashMismatch,
\* InvalidPublicAmountData, InvalidProof, and the verifier is not invoked
\* for a transaction that fails an earlier check.
C28_ErrorPrecedence ==
    TransactDone =>
        LET first == FirstFailing(call,
                         PdasMatch(call) /\ call.accounts.authority = AUTHORITY,
                         call.accounts.token_mint = MINT)
        IN  first # "none" =>
                /\ result.err = first
                /\ first # "InvalidProof" => ~VerifierInvoked

\* C28, amended: account validation comes first: a call naming an account
\* that exists (or one account twice) fails with AccountAlreadyInUse, and
\* otherwise one with a wrong authority or token mint with ConstraintSeeds;
\* when account validation passes, the error reported is that of the
\* earliest failing check in the order Unauthorized (PDA), UnknownRoot,
\* ExtDataHashMismatch, InvalidPublicAmountData, InvalidProof; the verifier
\* is invoked only when every earlier check passed.
C28_ErrorPrecedenceAmended ==
    TransactDone =>
        LET seeds_ok == call.accounts.authority = AUTHORITY /\ call.accounts.token_mint = MINT
            first    == FirstFailing(call, PdasMatch(call), TRUE)
        IN  /\ ~AllNew(call) => result.err = "AccountAlreadyInUse"
            /\ (AllNew(call) /\ ~seeds_ok) => result.err = "ConstraintSeeds"
            /\ (AllNew(call) /\ seeds_ok /\ first # "none") => result.err = first
            /\ (AllNew(call) /\ seeds_ok /\ first = "none") =>
                  result.err \notin {"Unauthorized", "TokenMintMismatch", "UnknownRoot",
                                     "ExtDataHashMismatch", "InvalidPublicAmountData",
                                     "InvalidProof"}
            /\ result.err # "TokenMintMismatch"
            /\ VerifierInvoked =>
                  /\ AllNew(call) /\ seeds_ok
                  /\ first \in {"none", "InvalidProof"}

\* An unknown root together with a changed ExtData and a proof that does
\* not verify: UnknownRoot is reported and the verifier was not invoked.
C28_Witness ==
    /\ TransactDone
    /\ AllNew(call)
    /\ ~IsKnownRoot(pre.tree, call.proof.root)
    /\ ~HashesAgree(call)
    /\ ~VerifyProof(call.proof)
    /\ result.err = "UnknownRoot"
    /\ ~VerifierInvoked


\* The commitment values recorded in a state of the pool.
RecordedCommitments(s) == {c.commitment : c \in s.commitments}

\* A transact call that repeats a commitment: one of its outputs is
\* recorded already, or its two outputs are equal.
RepeatsCommitment ==
    /\ TransactDone
    /\ \/ call.proof.output_commitments[1] \in RecordedCommitments(pre)
       \/ call.proof.output_commitments[2] \in RecordedCommitments(pre)
       \/ call.proof.output_commitments[1] = call.proof.output_commitments[2]

\* C29: commitments are created exactly once.  No commitment value is
\* recorded with two leaves of the tree, a committed transaction adds two
\* new commitment values, and a transact that repeats a commitment does not
\* commit and leaves the tree and every other account as they were.
C29_CommitmentsOnce ==
    /\ \A a, b \in commitment_accounts : a.commitment = b.commitment => a = b
    /\ Committed =>
          /\ call.proof.output_commitments[1] # call.proof.output_commitments[2]
          /\ RecordedCommitments(Persisted) =
                RecordedCommitments(pre) \cup { call.proof.output_commitments[1],
                                                call.proof.output_commitments[2] }
          /\ Cardinality(RecordedCommitments(Persisted)) =
                Cardinality(RecordedCommitments(pre)) + 2
    /\ RepeatsCommitment =>
          /\ result.err # "Ok"
          /\ tree_account = pre.tree
          /\ Persisted = pre

\* A transact whose first output commitment was recorded by an earlier
\* transaction, and whose second is new, has been refused.
C29_Witness ==
    /\ TransactDone
    /\ call.proof.output_commitments[1] \in RecordedCommitments(pre)
    /\ call.proof.output_commitments[2] \notin RecordedCommitments(pre)
    /\ call.proof.output_commitments[1] # call.proof.output_commitments[2]
    /\ call.accounts.commitment0 = Pda("commitment", MINT, call.proof.output_commitments[1])
    /\ result.err = "AccountAlreadyInUse"
    /\ failed = "init_commitment0"
    /\ tree_account = pre.tree

\* The vault's balance when the fee transfer of the call is made: the
\* balance before the call with the deposit or withdrawal applied.
LiveVaultBalance == pre.balances["vault_ata"] + call.ext_data.ext_amount

\* A transact call on the pool's vault that passed every check and, where
\* it moves an amount, made the deposit or withdrawal.
ReachedFee ==
    /\ TransactDone
    /\ Logged("verify_proof")
    /\ call.accounts.vault_ata = "vault_ata"
    /\ call.ext_data.fee > 0
    /\ \/ call.ext_data.ext_amount = 0
       \/ Logged("deposit")
       \/ Logged("withdraw")

\* C32: the fee is checked against the live balance.  handle_fee rejects
\* with InsufficientFundsForFee exactly when the vault balance at the moment
\* of the fee transfer is below fee, so no deposit is refused a fee its own
\* amount covers; and a withdrawal from a vault holding less than
\* |ext_amount| + fee is rejected with InsufficientFundsForWithdrawal or
\* InsufficientFundsForFee.
C32_FeeAgainstLiveBalance ==
    /\ ReachedFee =>
          ((result.err = "InsufficientFundsForFee") = (LiveVaultBalance < call.ext_data.fee))
    /\ ( /\ TransactDone
         /\ Logged("verify_proof")
         /\ call.accounts.vault_ata = "vault_ata"
         /\ call.ext_data.ext_amount < 0
         /\ call.ext_data.ext_amount # I64_MIN
         /\ pre.balances["vault_ata"] < (-call.ext_data.ext_amount) + call.ext_data.fee )
          => result.err \in {"InsufficientFundsForWithdrawal", "InsufficientFundsForFee"}
---------------------------------------------------------------------------
(* Claims on the race (SpecRace).                                          *)

Lost(w) == result[w] \notin {"pending", "Ok"}

NumCommitted == (IF result.a = "Ok" THEN 1 ELSE 0) + (IF result.b = "Ok" THEN 1 ELSE 0)

\* C8: race on one note.  When two transact calls that name the same input
\* nullifier run in either order, at most one commits; the other fails, and
\* nothing of it remains: no commitment record, no leaf, no value moved.
\* Once both have run the pool is what the committed one alone makes of it.
C8_RaceOnOneNote ==
    result.op = "race" =>
        /\ ~(result.a = "Ok" /\ result.b = "Ok")
        /\ tree_account.next_index = pre.tree.next_index + 2 * NumCommitted
        /\ Cardinality(commitment_accounts) = 2 * NumCommitted
        /\ \A w \in {"a", "b"} : Lost(w) =>
              /\ \A rec \in commitment_accounts :
                    rec.key \notin {call[w].accounts.commitment0, call[w].accounts.commitment1}
              /\ \A i \in 1..Len(tree_account.root), k \in 1..2 :
                    tree_account.root[i] # call[w].proof.output_commitments[k]
        /\ (Lost("a") /\ Lost("b")) => Persisted = pre
        /\ (Lost("a") /\ result.b = "Ok") =>
              Persisted = Commit(RunTransact(pre, call.b), pre)
        /\ (Lost("b") /\ result.a = "Ok") =>
              Persisted = Commit(RunTransact(pre, call.a), pre)

\* Both proofs verify; the first to run commits, and the second, a deposit
\* that alone would have committed, fails on the nullifier account.
C8_Witness ==
    /\ result.op = "race"
    /\ call.a.proof.verifies /\ call.b.proof.verifies
    /\ result.a = "AccountAlreadyInUse"
    /\ result.b = "Ok"
    /\ call.a.ext_data.ext_amount > 0
    /\ Commit(RunTransact(pre, call.a), pre) # pre
    /\ balances["alice_ata"] = pre.balances["alice_ata"]

---------------------------------------------------------------------------
(* Two transactions prepared against the same root of the pool, naming     *)
(* different notes and different outputs, run one after the other in       *)
(* either order.                                                           *)

SerialExtDatas ==
    { BaseExtData,
      [BaseExtData EXCEPT !.ext_amount = 1,  !.fee = 0],
      [BaseExtData EXCEPT !.ext_amount = -1, !.fee = 0],
      [BaseExtData EXCEPT !.ext_amount = -2, !.fee = 0],
      [BaseExtData EXCEPT !.ext_amount = 0,  !.fee = 0] }

InitSerial ==
    /\ tree_account = FreshPool.tree
    /\ account_keys = FreshPool.keys
    /\ commitment_accounts = FreshPool.commitments
    /\ balances = FreshPool.balances
    /\ pre = FreshPool
    /\ spent = [n \in 1..NumNullifiers |-> 0]
    /\ phase = "race"
    /\ \E ea \in SerialExtDatas, eb \in SerialExtDatas, va \in BOOLEAN, vb \in BOOLEAN,
          ins \in {<<3, 4>>, <<4, 3>>} :
          call = [ op |-> "serial",
                   a  |-> [HonestTx(FreshPool, <<1, 2>>, <<1, 2>>, ea, "alice_ata")
                             EXCEPT !.proof.verifies = va],
                   b  |-> [HonestTx(FreshPool, ins, <<3, 4>>, eb, "bob_ata")
                             EXCEPT !.proof.verifies = vb] ]
    /\ result = [op |-> "serial", a |-> "pending", b |-> "pending"]
    /\ log = <<>>
    /\ failed = "none"
    /\ ncalls = 0

SpecSerial == InitSerial /\ [][NextRace]_vars

---------------------------------------------------------------------------
(* Claims on the serialized pair (SpecSerial).                             *)

\* The balances a transaction needs and leaves, each transfer drawing on
\* the balance as the transfers before it left it.
FundsSuffice(bal, tx) ==
    LET ext_amount == tx.ext_data.ext_amount
        fee == tx.ext_data.fee
    IN  /\ ext_amount > 0 => bal[tx.accounts.user_token_account] >= ext_amount
        /\ ext_amount < 0 => bal["vault_ata"] >= -ext_amount
        /\ bal["vault_ata"] + ext_amount >= fee

FundsAfter(bal, tx) ==
    [bal EXCEPT ![tx.accounts.user_token_account] = @ - tx.ext_data.ext_amount,
                !["vault_ata"] = @ + tx.ext_data.ext_amount - tx.ext_data.fee,
                !["fee_ata"] = @ + tx.ext_data.fee]

\* Funds are sufficient for x followed by y.
SufficientFunds(x, y) ==
    /\ FundsSuffice(pre.balances, x)
    /\ FundsSuffice(FundsAfter(pre.balances, x), y)

\* C33: stale-root tolerance under serialization.  Two valid transactions
\* built against the same known root, with pairwise distinct nullifiers and
\* output commitments and sufficient funds, both commit when they run one
\* after the other in either order, and next_index has then grown by 4.
C33_StaleRootTolerance ==
    ( /\ result.op = "serial"
      /\ result.a # "pending" /\ result.b # "pending"
      /\ call.a.proof.verifies /\ call.b.proof.verifies
      /\ call.a.proof.root = call.b.proof.root
      /\ IsKnownRoot(pre.tree, call.a.proof.root)
      /\ SufficientFunds(call.a, call.b)
      /\ SufficientFunds(call.b, call.a) )
        => /\ result.a = "Ok"
           /\ result.b = "Ok"
           /\ tree_account.next_index = pre.tree.next_index + 4

---------------------------------------------------------------------------
(* The instruction executed step by step.  Two transact calls are queued;  *)
(* the runtime takes one, runs account validation and the handler one      *)
(* statement at a time on the instruction's accounts, and ends it by       *)
(* keeping or discarding what it wrote.  ncalls counts the statements of   *)
(* the running instruction, pre is the accounts as the instruction found   *)
(* them, result.err is its error so far.                                   *)

\* Statements of one transact: 5 of account validation, 14 of the handler.
NumSteps == 19

\* Statement k of the instruction, applied to the execution c so far.
\* start is the accounts as deserialized when the instruction began.
HandlerStep(k, c, tx, start) ==
    LET proof == tx.proof
        a == tx.accounts
    IN  CASE k = 1  -> InitAccount(c, "init_nullifier0",  a.nullifier0)
          [] k = 2  -> InitAccount(c, "init_nullifier1",  a.nullifier1)
          [] k = 3  -> InitAccount(c, "init_commitment0", a.commitment0)
          [] k = 4  -> InitAccount(c, "init_commitment1", a.commitment1)
          [] k = 5  -> Require(c, "seeds",
                               a.token_mint = MINT /\ a.authority = AUTHORITY,
                               "ConstraintSeeds")
          [] k = 6  -> Require(c, "pda_nullifier0",
                               a.nullifier0
                                   = Pda("nullifier", a.token_mint, proof.input_nullifiers[1]),
                               "Unauthorized")
          [] k = 7  -> Require(c, "pda_nullifier1",
                               a.nullifier1
                                   = Pda("nullifier", a.token_mint, proof.input_nullifiers[2]),
                               "Unauthorized")
          [] k = 8  -> Require(c, "pda_commitment0",
                               a.commitment0
                                   = Pda("commitment", a.token_mint, proof.output_commitments[1]),
                               "Unauthorized")
          [] k = 9  -> Require(c, "pda_commitment1",
                               a.commitment1
                                   = Pda("commitment", a.token_mint, proof.output_commitments[2]),
                               "Unauthorized")
          [] k = 10 -> Require(c, "authority", a.authority = AUTHORITY, "Unauthorized")
          [] k = 11 -> Require(c, "token_mint", a.token_mint = MINT, "TokenMintMismatch")
          [] k = 12 -> Require(c, "known_root", IsKnownRoot(c.st.tree, proof.root),
                               "UnknownRoot")
          [] k = 13 -> Require(c, "ext_data_hash",
                               FrFromLeBytesModOrder(Sha256(Serialize(tx.ext_data)))
                                   = FrFromBeBytesModOrder(proof.ext_data_hash),
                               "ExtDataHashMismatch")
          [] k = 14 -> Require(c, "public_amount",
                               CheckPublicAmount(tx.ext_data.ext_amount, tx.ext_data.fee,
                                                 proof.public_amount),
                               "InvalidPublicAmountData")
          [] k = 15 -> Require(c, "verify_proof", VerifyProof(proof), "InvalidProof")
          [] k = 16 -> Transfers(c, tx, start.balances[a.vault_ata])
          [] k = 17 -> AppendStep(c, "append0", Leaf(proof.output_commitments[1]))
          [] k = 18 -> AppendStep(c, "append1", Leaf(proof.output_commitments[2]))
          [] k = 19 -> WriteCommitments(c, tx, start.tree.next_index)

\* The execution of the running instruction so far.
RunningCtx == [st |-> Persisted, err |-> result.err, log |-> log, failed |-> failed]

StepPairs == {<<1, 2>>, <<3, 4>>, <<1, 3>>}

InitSteps ==
    /\ tree_account = FreshPool.tree
    /\ account_keys = FreshPool.keys
    /\ commitment_accounts = FreshPool.commitments
    /\ balances = FreshPool.balances
    /\ pre = FreshPool
    /\ spent = [n \in 1..NumNullifiers |-> 0]
    /\ phase = "queue"
    /\ \E ea \in RaceExtDatas, eb \in RaceExtDatas, va \in BOOLEAN, vb \in BOOLEAN,
          ins \in StepPairs :
          call = [ op |-> "steps",
                   a  |-> [HonestTx(FreshPool, <<1, 2>>, <<1, 2>>, ea, "alice_ata")
                             EXCEPT !.proof.verifies = va],
                   b  |-> [HonestTx(FreshPool, ins, <<3, 4>>, eb, "bob_ata")
                             EXCEPT !.proof.verifies = vb] ]
    /\ result = [op |-> "steps", a |-> "pending", b |-> "pending",
                 err |-> "Ok", last |-> "none"]
    /\ log = <<>>
    /\ failed = "none"
    /\ ncalls = 0

\* A runtime that holds the call b back until a has ended.
Begin_AfterOther(w) ==
    /\ phase = "queue"
    /\ result[w] = "pending"
    /\ w = "b" => result.a # "pending"
    /\ phase' = w
    /\ pre' = Persisted
    /\ result' = [result EXCEPT !.err = "Ok"]
    /\ log' = <<>>
    /\ failed' = "none"
    /\ ncalls' = 0
    /\ UNCHANGED <<tree_account, account_keys, commitment_accounts, balances, spent, call>>

\* The runtime takes the queued call w: the instruction starts on the
\* accounts as they are.
Begin(w) ==
    /\ phase = "queue"
    /\ result[w] = "pending"
    /\ phase' = w
    /\ pre' = Persisted
    /\ result' = [result EXCEPT !.err = "Ok"]
    /\ log' = <<>>
    /\ failed' = "none"
    /\ ncalls' = 0
    /\ UNCHANGED <<tree_account, account_keys, commitment_accounts, balances, spent, call>>

\* The running instruction executes its next statement.
Step(w) ==
    /\ phase = w
    /\ result.err = "Ok"
    /\ ncalls < NumSteps
    /\ LET c == HandlerStep(ncalls + 1, RunningCtx, call[w], pre)
       IN  /\ tree_account' = c.st.tree
           /\ account_keys' = c.st.keys
           /\ commitment_accounts' = c.st.commitments
           /\ balances' = c.st.balances
           /\ result' = [result EXCEPT !.err = c.err]
           /\ log' = c.log
           /\ failed' = c.failed
    /\ ncalls' = ncalls + 1
    /\ UNCHANGED <<spent, phase, call, pre>>

\* The instruction returns, with an error or after its last statement, and
\* the runtime keeps or discards what it wrote.
End(w) ==
    /\ phase = w
    /\ result.err # "Ok" \/ ncalls = NumSteps
    /\ LET s == Commit(RunningCtx, pre)
           tx == call[w]
       IN  /\ tree_account' = s.tree
           /\ account_keys' = s.keys
           /\ commitment_accounts' = s.commitments
           /\ balances' = s.balances
           /\ spent' = IF result.err # "Ok" THEN spent
                       ELSE [n \in DOMAIN spent |->
                               spent[n] + (IF tx.proof.input_nullifiers[1] = n THEN 1 ELSE 0)
                                        + (IF tx.proof.input_nullifiers[2] = n THEN 1 ELSE 0)]
    /\ result' = [result EXCEPT ![w] = result.err, !.last = w]
    /\ phase' = "queue"
    /\ UNCHANGED <<call, log, failed, pre, ncalls>>

NextSteps == \E w \in {"a", "b"} : Begin(w) \/ Step(w) \/ End(w)

\* The runtime takes every queued call, and an instruction it runs goes on
\* to its next statement and to its end.
SpecSteps ==
    /\ InitSteps /\ [][NextSteps]_vars
    /\ \A w \in {"a", "b"} :
          WF_vars(Begin(w)) /\ WF_vars(Step(w)) /\ WF_vars(End(w))

---------------------------------------------------------------------------
(* Claims on termination (SpecSteps).                                      *)

\* The comparisons the loop of is_known_root makes from slot i on.
RECURSIVE KnownRootSteps(_, _, _)
KnownRootSteps(t, root, i) ==
    IF root = t.root_history[i] THEN 1
    ELSE LET j == IF i = 0 THEN ROOT_HISTORY_SIZE - 1 ELSE i - 1
         IN  IF j = t.root_index THEN 1 ELSE 1 + KnownRootSteps(t, root, j)

\* The comparisons of one call of is_known_root: none for the zero root.
IsKnownRootSteps(t, root) ==
    IF root = Zero THEN 0 ELSE KnownRootSteps(t, root, t.root_index)

\* The hash steps that made a node out of one leaf: each step joins two
\* nodes of the level below.
RECURSIVE HashSteps(_)
HashSteps(node) ==
    IF Len(node) = 1 THEN 0 ELSE 1 + HashSteps(SubSeq(node, 1, Len(node) \div 2))

\* In the accumulator's state, is_known_root compares at most
\* ROOT_HISTORY_SIZE entries for every root, ROOT_HISTORY_SIZE of them for
\* a root that is not stored, and every root is the result of
\* DEFAULT_HEIGHT hash steps.
BoundedSteps ==
    /\ \A root \in CandidateRoots(tree_account) \cup {call.a.proof.root, call.b.proof.root} :
          /\ IsKnownRootSteps(tree_account, root) \in 0..ROOT_HISTORY_SIZE
          /\ ~IsKnownRoot(tree_account, root) /\ root # Zero =>
                IsKnownRootSteps(tree_account, root) = ROOT_HISTORY_SIZE
    /\ HashSteps(tree_account.root) = DEFAULT_HEIGHT
    /\ \A i \in 0..(ROOT_HISTORY_SIZE - 1) :
          tree_account.root_history[i] # Zero =>
              HashSteps(tree_account.root_history[i]) = DEFAULT_HEIGHT
    /\ ncalls <= NumSteps

\* The call that ended last ended as the handler run in one piece ends.
EndsAsHandler ==
    (phase = "queue" /\ result.last # "none") =>
        LET c == RunTransact(pre, call[result.last])
        IN  /\ result[result.last] = c.err
            /\ log = c.log
            /\ failed = c.failed
            /\ Persisted = Commit(c, pre)

Ended(w) == result[w] # "pending" /\ phase # w

\* C38: every call terminates.  is_known_root returns after comparing at
\* most ROOT_HISTORY_SIZE entries, append returns after exactly
\* DEFAULT_HEIGHT hash steps, and every transact call eventually ends,
\* committed or rejected, without waiting on another call: whenever the
\* runtime is free a queued call can start, whatever the other call did,
\* and a running call can always take its next statement or return.
C38_EveryCallTerminates ==
    /\ [](BoundedSteps /\ EndsAsHandler)
    /\ [](\A w \in {"a", "b"} :
            /\ (phase = "queue" /\ result[w] = "pending") => ENABLED Begin(w)
            /\ phase = w => ENABLED (Step(w) \/ End(w)))
    /\ \A w \in {"a", "b"} : (result[w] = "pending") ~> Ended(w)

\* Both calls have ended, b first and committed, a rejected on the
\* nullifier b spent; the root a named costs is_known_root a full turn.
C38_Witness ==
    /\ result.op = "steps"
    /\ phase = "queue"
    /\ result.b = "Ok"
    /\ result.a = "AccountAlreadyInUse"
    /\ result.last = "a"
    /\ tree_account.next_index = 2
    /\ IsKnownRootSteps(tree_account, BogusRoot) = ROOT_HISTORY_SIZE
    /\ IsKnownRootSteps(tree_account, call.a.proof.root) = ROOT_HISTORY_SIZE

---------------------------------------------------------------------------
(* The Groth16 verifier behind utils::verify_proof, after the design       *)
(* document (section 4.3) and its unit tests.  A public input is a 32-byte *)
(* big-endian value, here two words; the group G1 has FIELD_SIZE elements, *)
(* so a scalar multiplication depends on the scalar modulo FIELD_SIZE.     *)

\* Public inputs of the circuit in the model (7 in the program).
NumInputs == 3

\* The public inputs of the known-valid triple of the tests (PUBLIC_INPUTS),
\* all below the modulus and none zero.
KnownInputs == [j \in 1..NumInputs |-> (37 * j) % FIELD_SIZE]

\* Curve points that appear as proof_a: PROOF_A and PROOF_C of the tests and
\* their negations.
Points == {"A", "-A", "C", "-C"}

\* G1 negation.
Neg(point) ==
    CASE point = "A"  -> "-A"
      [] point = "-A" -> "A"
      [] point = "C"  -> "-C"
      [] point = "-C" -> "C"

VerifyingKeys == {"VERIFYING_KEY", "OTHER_KEY"}

\* is_less_than_bn254_field_size_be
IsLessThanFieldSize(bytes32) == bytes32 < FIELD_SIZE

\* vk_x = ic[0] + sum of public_input[j] * ic[j + 1]: it determines the key
\* and the inputs as scalars of G1, that is modulo FIELD_SIZE.
PrepareInputs(public_inputs, vk) ==
    [ vk |-> vk, x |-> [j \in 1..NumInputs |-> public_inputs[j] % FIELD_SIZE] ]

\* The pairing equation on the proof (proof_a, PROOF_B, PROOF_C) of the
\* tests: it holds for the negated PROOF_A and the vk_x of the statement
\* the proof was made for, and for nothing else.
PairingHolds(proof_a, vk_x) ==
    /\ proof_a = "-A"
    /\ vk_x = PrepareInputs(KnownInputs, "VERIFYING_KEY")

\* verify_unchecked: steps 2 to 4, no range check.
Groth16VerifyUnchecked(proof_a, public_inputs, vk) ==
    [ err   |-> IF PairingHolds(proof_a, PrepareInputs(public_inputs, vk))
                THEN "Ok" ELSE "ProofVerificationFailed",
      steps |-> <<"prepare_inputs", "pairing">> ]

\* A verify that goes straight to the pairing.
Groth16Verify_NoRangeCheck(proof_a, public_inputs, vk) ==
    Groth16VerifyUnchecked(proof_a, public_inputs, vk)

\* A verify whose weighted sum leaves out the last public input.
Groth16Verify_SkipsLastInput(proof_a, public_inputs, vk) ==
    IF \E j \in 1..NumInputs : ~IsLessThanFieldSize(public_inputs[j])
    THEN [ err |-> "PublicInputGreaterThanFieldSize", steps |-> <<"range_check">> ]
    ELSE Groth16VerifyUnchecked(proof_a,
             [public_inputs EXCEPT ![NumInputs] = KnownInputs[NumInputs]], vk)

\* verify: step 1 (every public input below the modulus), then steps 2 to 4.
Groth16Verify(proof_a, public_inputs, vk) ==
    IF \E j \in 1..NumInputs : ~IsLessThanFieldSize(public_inputs[j])
    THEN [ err |-> "PublicInputGreaterThanFieldSize", steps |-> <<"range_check">> ]
    ELSE LET r == Groth16VerifyUnchecked(proof_a, public_inputs, vk)
         IN  [ err |-> r.err, steps |-> <<"range_check">> \o r.steps ]

\* A verify_proof that hands proof_a to the verifier as supplied.
UtilsVerifyProof_NoNegation(proof_a, public_inputs, vk) ==
    Groth16Verify(proof_a, public_inputs, vk).err = "Ok"

\* utils::verify_proof: negates proof_a, then verifier.verify().unwrap_or(false).
UtilsVerifyProof(proof_a, public_inputs, vk) ==
    Groth16Verify(Neg(proof_a), public_inputs, vk).err = "Ok"

\* The known inputs with at most one of them replaced by any 32-byte value.
InputVariants ==
    { [KnownInputs EXCEPT ![j] = v] : j \in 1..NumInputs, v \in 0..BYTES32_MAX }

InitVerify ==
    /\ tree_account = InitializedTree
    /\ account_keys = {}
    /\ commitment_accounts = {}
    /\ balances = <<>>
    /\ spent = <<>>
    /\ phase = "idle"
    /\ call \in [ op            : {"groth16"},
                  proof_a       : Points,
                  public_inputs : InputVariants,
                  vk            : VerifyingKeys ]
    /\ result = NoCall
    /\ log = <<>>
    /\ failed = "none"
    /\ pre = tree_account
    /\ ncalls = 0

VerifyCall ==
    /\ phase = "idle"
    /\ phase' = "done"
    /\ LET r == Groth16Verify(call.proof_a, call.public_inputs, call.vk)
       IN  /\ result' = [op |-> "verify", err |-> r.err]
           /\ log' = r.steps
    /\ UNCHANGED <<tree_account, account_keys, commitment_accounts, balances, spent,
                   call, failed, pre, ncalls>>

VerifyUncheckedCall ==
    /\ phase = "idle"
    /\ phase' = "done"
    /\ LET r == Groth16VerifyUnchecked(call.proof_a, call.public_inputs, call.vk)
       IN  /\ result' = [op |-> "verify_unchecked", err |-> r.err]
           /\ log' = r.steps
    /\ UNCHANGED <<tree_account, account_keys, commitment_accounts, balances, spent,
                   call, failed, pre, ncalls>>

VerifyProofCall ==
    /\ phase = "idle"
    /\ phase' = "done"
    /\ result' = [ op  |-> "verify_proof",
                   err |-> IF UtilsVerifyProof(call.proof_a, call.public_inputs, call.vk)
                           THEN "Ok" ELSE "false" ]
    /\ UNCHANGED <<tree_account, account_keys, commitment_accounts, balances, spent,
                   call, log, failed, pre, ncalls>>

NextVerify == VerifyCall \/ VerifyUncheckedCall \/ VerifyProofCall

SpecVerify == InitVerify /\ [][NextVerify]_vars

---------------------------------------------------------------------------
(* Claims on the verifier (SpecVerify).                                    *)

SomeInputOutOfRange == \E j \in 1..NumInputs : call.public_inputs[j] >= FIELD_SIZE

\* The call's inputs are, as scalars, those the proof was made for.
InputsCongruent ==
    \A j \in 1..NumInputs : call.public_inputs[j] % FIELD_SIZE = KnownInputs[j]

CheckedPathRejectsFirst ==
    (result.op = "verify" /\ SomeInputOutOfRange) =>
        /\ result.err = "PublicInputGreaterThanFieldSize"
        /\ \A i \in 1..Len(log) : log[i] # "pairing"

\* C19 as stated: with some public input at or above the modulus, verify
\* returns PublicInputGreaterThanFieldSize before any pairing work, and
\* verify_unchecked reports ProofVerificationFailed.
C19_RangeCheck ==
    /\ CheckedPathRejectsFirst
    /\ (result.op = "verify_unchecked" /\ SomeInputOutOfRange) =>
          result.err = "ProofVerificationFailed"

\* C19, amended: with some public input at or above the modulus, verify
\* returns PublicInputGreaterThanFieldSize before any pairing work;
\* verify_unchecked goes on to the pairing and reports
\* ProofVerificationFailed, except that it accepts when every input is
\* congruent modulo the modulus to the input the proof was made for and
\* the proof and the key are the valid ones.  An input equal to the modulus
\* (the known input being nonzero) is reported as ProofVerificationFailed.
C19_RangeCheckAmended ==
    /\ CheckedPathRejectsFirst
    /\ (result.op = "verify_unchecked" /\ SomeInputOutOfRange) =>
          /\ \E i \in 1..Len(log) : log[i] = "pairing"
          /\ result.err \in {"Ok", "ProofVerificationFailed"}
          /\ result.err = "Ok" <=>
                (InputsCongruent /\ call.proof_a = "-A" /\ call.vk = "VERIFYING_KEY")
          /\ (\E j \in 1..NumInputs : call.public_inputs[j] = FIELD_SIZE) =>
                result.err = "ProofVerificationFailed"

\* The checked verify has rejected the otherwise valid triple whose first
\* public input is the modulus itself.
C19_Witness ==
    /\ result.op = "verify"
    /\ call.proof_a = "-A"
    /\ call.vk = "VERIFYING_KEY"
    /\ call.public_inputs[1] = FIELD_SIZE
    /\ result.err = "PublicInputGreaterThanFieldSize"
    /\ log = <<"range_check">>

\* Two 32-byte values that differ in exactly one byte (here: one word).
SingleByteChange(x, y) ==
    /\ x # y
    /\ \/ x \div WORD = y \div WORD
       \/ x % WORD = y % WORD

\* The proof_a that reaches the verifier: utils::verify_proof negates it.
VerifierProofA ==
    IF result.op = "verify_proof" THEN Neg(call.proof_a) ELSE call.proof_a

\* C20: the known-valid triple verifies; with any single byte of any public
\* input changed, or with a different verifying key, verification fails.
C20_ProofSoundness ==
    result.op \in {"verify", "verify_unchecked", "verify_proof"} =>
        /\ ( /\ VerifierProofA = "-A"
             /\ call.public_inputs = KnownInputs
             /\ call.vk = "VERIFYING_KEY" ) => result.err = "Ok"
        /\ (\E j \in 1..NumInputs :
               SingleByteChange(call.public_inputs[j], KnownInputs[j]))
              => result.err # "Ok"
        /\ call.vk # "VERIFYING_KEY" => result.err # "Ok"

\* verify_proof has rejected the valid proof and key with one byte of the
\* last public input changed.
C20_Witness ==
    /\ result.op = "verify_proof"
    /\ call.proof_a = "A"
    /\ call.vk = "VERIFYING_KEY"
    /\ SingleByteChange(call.public_inputs[NumInputs], KnownInputs[NumInputs])
    /\ call.public_inputs[NumInputs] < FIELD_SIZE
    /\ result.err = "false"

\* C37: exactly one negation of proof_a.  utils::verify_proof negates the
\* supplied proof_a once and the verifier does not negate: a proof that
\* verify_proof accepts is rejected by it with proof_a replaced by the
\* negated point, the verifier given the same proof_a as supplied returns
\* ProofVerificationFailed, and given the negated one it accepts.
C37_OneNegation ==
    /\ (result.op = "verify_proof" /\ result.err = "Ok") =>
          /\ ~UtilsVerifyProof(Neg(call.proof_a), call.public_inputs, call.vk)
          /\ Groth16Verify(call.proof_a, call.public_inputs, call.vk).err
                = "ProofVerificationFailed"
          /\ Groth16Verify(Neg(call.proof_a), call.public_inputs, call.vk).err = "Ok"
    /\ (result.op = "verify" /\ result.err = "Ok") =>
          /\ ~UtilsVerifyProof(call.proof_a, call.public_inputs, call.vk)
          /\ UtilsVerifyProof(Neg(call.proof_a), call.public_inputs, call.vk)
    /\ ( /\ result.op \in {"verify", "verify_unchecked"}
         /\ call.proof_a = "A"
         /\ call.public_inputs = KnownInputs
         /\ call.vk = "VERIFYING_KEY" ) => result.err = "ProofVerificationFailed"

\* verify_proof has accepted the proof of the tests as supplied, with the
\* point PROOF_A that the verifier alone refuses.
C37_Witness ==
    /\ result.op = "verify_proof"
    /\ call.proof_a = "A"
    /\ call.public_inputs = KnownInputs
    /\ call.vk = "VERIFYING_KEY"
    /\ result.err = "Ok"
    /\ Groth16Verify("A", KnownInputs, "VERIFYING_KEY").err = "ProofVerificationFailed"

---------------------------------------------------------------------------
(* utils.rs: change_endianness, on byte strings.  The chunk of 32 bytes is *)
(* scaled to CHUNK bytes and a byte to 0..MaxByte.                         *)

CHUNK == 3
MaxLen == 7
MaxByte == 2

\* Byte strings of every length up to MaxLen: the empty one, whole chunks,
\* and strings ending in a shorter chunk.
ByteStrings == UNION {[1..n -> 0..MaxByte] : n \in 0..MaxLen}

\* b.iter().rev(): the bytes of one chunk, last first.
Rev(b) == [i \in 1..Len(b) |-> b[Len(b) + 1 - i]]

\* A conversion that reverses the whole string as one chunk.
ChangeEndianness_OneChunk(bytes) == Rev(bytes)

\* The loop over bytes.chunks(32): vec is the output so far, bytes the
\* input not yet consumed; the last chunk is what is left.
RECURSIVE ChangeEndiannessLoop(_, _)
ChangeEndiannessLoop(bytes, vec) ==
    IF bytes = <<>> THEN vec
    ELSE LET n == IF Len(bytes) < CHUNK THEN Len(bytes) ELSE CHUNK
         IN  ChangeEndiannessLoop(SubSeq(bytes, n + 1, Len(bytes)),
                                  vec \o Rev(SubSeq(bytes, 1, n)))

\* utils.rs 180-188.
ChangeEndianness(bytes) == ChangeEndiannessLoop(bytes, <<>>)

InitBytes ==
    /\ tree_account = InitializedTree
    /\ account_keys = {}
    /\ commitment_accounts = {}
    /\ balances = <<>>
    /\ spent = <<>>
    /\ phase = "idle"
    /\ call \in [op : {"change_endianness"}, bytes : ByteStrings]
    /\ result = NoCall
    /\ log = <<>>
    /\ failed = "none"
    /\ pre = tree_account
    /\ ncalls = 0

\* change_endianness(&bytes)
ChangeEndiannessCall ==
    /\ result = NoCall
    /\ result' = [op |-> "change_endianness", ret |-> ChangeEndianness(call.bytes)]
    /\ UNCHANGED <<tree_account, account_keys, commitment_accounts, balances, spent,
                   phase, call, log, failed, pre, ncalls>>

\* change_endianness(&converted): the conversion of the first result, which
\* log keeps.
RoundTripCall ==
    /\ result.op = "change_endianness"
    /\ log' = result.ret
    /\ result' = [op |-> "round_trip", ret |-> ChangeEndianness(result.ret)]
    /\ UNCHANGED <<tree_account, account_keys, commitment_accounts, balances, spent,
                   phase, call, failed, pre, ncalls>>

NextBytes == ChangeEndiannessCall \/ RoundTripCall

SpecBytes == InitBytes /\ [][NextBytes]_vars

---------------------------------------------------------------------------
(* Claims on change_endianness (SpecBytes).                                *)

\* Position i of the output holds the byte that mirrors it inside its
\* chunk: the chunk of i runs from ChunkFirst to ChunkLast, the last chunk
\* ending with the string.
ChunkFirst(i) == ((i - 1) \div CHUNK) * CHUNK + 1
ChunkLast(i, len) ==
    IF ChunkFirst(i) + CHUNK - 1 > len THEN len ELSE ChunkFirst(i) + CHUNK - 1
ReversedInChunks(in, out) ==
    /\ Len(out) = Len(in)
    /\ \A i \in 1..Len(in) :
          out[i] = in[ChunkFirst(i) + ChunkLast(i, Len(in)) - i]

\* C39: change_endianness preserves the length and reverses the bytes
\* inside each consecutive chunk, the last chunk possibly shorter, for
\* every byte string, the empty one included; applied twice it returns the
\* original bytes.
C39_ChunkwiseInvolution ==
    /\ result.op = "change_endianness" => ReversedInChunks(call.bytes, result.ret)
    /\ result.op = "round_trip" =>
          /\ ReversedInChunks(call.bytes, log)
          /\ ReversedInChunks(log, result.ret)
          /\ result.ret = call.bytes

\* A round trip of a string that ends in a shorter chunk, whose conversion
\* differs from it in the first and in the last chunk.
C39_Witness ==
    /\ result.op = "round_trip"
    /\ Len(call.bytes) > CHUNK
    /\ Len(call.bytes) % CHUNK # 0
    /\ log[1] # call.bytes[1]
    /\ log[Len(log)] # call.bytes[Len(log)]
    /\ result.ret = call.bytes

====
